---- MODULE Spec2Model ----
\* Outlet facility analysis (ava-wincore): the batch enrichment pipeline of
\* facility_analyzer.py, the geo-query client and result cache of
\* api_handler.py and the coordinate parser of data_loader.py.
EXTENDS Integers, Sequences, FiniteSets, TLC

\* ---------------------------------------------------------------------------
\* Program constants (config.py, default arguments)
\* ---------------------------------------------------------------------------

\* config.py:24
DEFAULT_RADIUS ==
    100

\* config.py:25
LARGER_RADIUS ==
    200

\* config.py:12
ENABLE_CACHE ==
    TRUE

\* config.py:13
USE_SIMPLIFIED_QUERIES ==
    TRUE

\* config.py:17-21, the endpoints in priority order
OVERPASS_ENDPOINTS ==
    << "http://31.97.187.239:12345/api/interpreter",
       "https://overpass-api.de/api/interpreter",
       "https://overpass.kumi.systems/api/interpreter" >>

\* facility_analyzer.py:16, default of max_retries
max_retries ==
    2

\* api_handler.py:385, the cache is written to disk when its size is a multiple of this
SAVE_EVERY ==
    10

\* ---------------------------------------------------------------------------
\* Bounds of the model
\* ---------------------------------------------------------------------------

\* batch_size of batch_process_outlets (config.py BATCH_SIZE is 1000)
BatchSize ==
    2

\* max_workers of the ThreadPoolExecutor (config.py MAX_WORKERS is 8)
MaxWorkers ==
    2

\* ---------------------------------------------------------------------------
\* Python values
\* ---------------------------------------------------------------------------

\* Python's None where the other values are strings
None ==
    "None"

Truthy(v) ==
    v \notin { None, "" }

\* dict.get(key) on a tag dictionary
TagGet(tags, key) ==
    IF key \in DOMAIN tags THEN tags[key] ELSE None

\* dict.get(key, default)
DictGet(d, key, default) ==
    IF key \in DOMAIN d THEN d[key] ELSE default

Range(s) ==
    { s[i] : i \in DOMAIN s }

Min(a, b) ==
    IF a < b THEN a ELSE b

\* ---------------------------------------------------------------------------
\* data_loader.parse_coordinates
\* A string is a sequence of one-character strings.
\* ---------------------------------------------------------------------------

Whitespace ==
    { " " }

DigitValue ==
    [ c \in { "1", "2", "3" } |-> CASE c = "1" -> 1 [] c = "2" -> 2 [] c = "3" -> 3 ]

Digits ==
    DOMAIN DigitValue

\* str.strip()
RECURSIVE lstrip(_)
lstrip(s) ==
    IF s # << >> /\ Head(s) \in Whitespace THEN lstrip(Tail(s)) ELSE s

RECURSIVE rstrip(_)
rstrip(s) ==
    IF s # << >> /\ s[Len(s)] \in Whitespace THEN rstrip(SubSeq(s, 1, Len(s) - 1)) ELSE s

strip(s) ==
    rstrip(lstrip(s))

\* str.split(','): every comma separates, empty parts are kept
RECURSIVE split_comma(_, _)
split_comma(s, cur) ==
    IF s = << >> THEN << cur >>
    ELSE IF Head(s) = "," THEN << cur >> \o split_comma(Tail(s), << >>)
    ELSE split_comma(Tail(s), Append(cur, Head(s)))

\* str.split(): runs of whitespace separate, empty parts are dropped
RECURSIVE split_space(_, _)
split_space(s, cur) ==
    IF s = << >> THEN (IF cur = << >> THEN << >> ELSE << cur >>)
    ELSE IF Head(s) \in Whitespace
         THEN (IF cur = << >> THEN << >> ELSE << cur >>) \o split_space(Tail(s), << >>)
    ELSE split_space(Tail(s), Append(cur, Head(s)))

RECURSIVE DigitsValue(_)
DigitsValue(ds) ==
    IF ds = << >> THEN 0 ELSE DigitsValue(SubSeq(ds, 1, Len(ds) - 1)) * 10 + DigitValue[ds[Len(ds)]]

AllDigits(ds) ==
    \A i \in DOMAIN ds : ds[i] \in Digits

\* The unsigned decimal literals float() accepts over this alphabet:
\* digits, digits '.', digits '.' digits, '.' digits
IsUnsignedLiteral(t) ==
    \E k \in 0..Len(t) :
        LET ip == SubSeq(t, 1, k)
            rest == SubSeq(t, k + 1, Len(t))
        IN  /\ AllDigits(ip)
            /\ \/ rest = << >> /\ ip # << >>
               \/ /\ rest # << >>
                  /\ Head(rest) = "."
                  /\ AllDigits(Tail(rest))
                  /\ (ip # << >> \/ Tail(rest) # << >>)

\* float(token) succeeds
IsFloatLiteral(tok) ==
    LET t == strip(tok)
    IN  \/ IsUnsignedLiteral(t)
        \/ t # << >> /\ Head(t) \in { "-", "+" } /\ IsUnsignedLiteral(Tail(t))

FracScale(n) ==
    CASE n = 0 -> 1000 [] n = 1 -> 100 [] n = 2 -> 10 [] OTHER -> 1

\* float(token), as a number of thousandths
UnsignedValue(t) ==
    LET k == CHOOSE j \in 0..Len(t) : AllDigits(SubSeq(t, 1, j)) /\ (j = Len(t) \/ t[j + 1] = ".")
        frac == IF k = Len(t) THEN << >> ELSE SubSeq(t, k + 2, Len(t))
    IN  DigitsValue(SubSeq(t, 1, k)) * 1000 + DigitsValue(frac) * FracScale(Len(frac))

float(tok) ==
    LET t == strip(tok)
    IN  IF Head(t) = "-" THEN 0 - UnsignedValue(Tail(t))
        ELSE IF Head(t) = "+" THEN UnsignedValue(Tail(t))
        ELSE UnsignedValue(t)

\* a parser that knows the comma form only
parse_coordinates_comma_only(coord_str) ==
    LET s == strip(coord_str)
        parts == split_comma(s, << >>)
    IN  IF Len(parts) # 2 THEN [ raised |-> "ValueError", arg |-> s ]
        ELSE IF ~ IsFloatLiteral(parts[1]) \/ ~ IsFloatLiteral(parts[2])
             THEN [ raised |-> "ValueError", arg |-> s ]
        ELSE [ raised |-> None, latitude |-> float(parts[1]), longitude |-> float(parts[2]) ]

\* a parser without the test of the number of parts and without the handler that
\* turns every exception into a ValueError
parse_coordinates_first_two(coord_str) ==
    LET s == strip(coord_str)
        parts == IF \E i \in DOMAIN s : s[i] = "," THEN split_comma(s, << >>) ELSE split_space(s, << >>)
    IN  IF Len(parts) < 2 THEN [ raised |-> "IndexError", arg |-> s ]
        ELSE IF ~ IsFloatLiteral(parts[1]) \/ ~ IsFloatLiteral(parts[2])
             THEN [ raised |-> "ValueError", arg |-> s ]
        ELSE [ raised |-> None, latitude |-> float(parts[1]), longitude |-> float(parts[2]) ]

\* data_loader.py:8-41; the result is the pair or the ValueError raised
parse_coordinates(coord_str) ==
    LET s == strip(coord_str)
        parts == IF \E i \in DOMAIN s : s[i] = "," THEN split_comma(s, << >>) ELSE split_space(s, << >>)
    IN  IF Len(parts) # 2 THEN [ raised |-> "ValueError", arg |-> s ]
        ELSE IF ~ IsFloatLiteral(parts[1]) \/ ~ IsFloatLiteral(parts[2])
             THEN [ raised |-> "ValueError", arg |-> s ]
        ELSE [ raised |-> None, latitude |-> float(parts[1]), longitude |-> float(parts[2]) ]

\* ---------------------------------------------------------------------------
\* The query service as seen through requests.post
\* ---------------------------------------------------------------------------

\* Python values a decoded JSON body can be
PyNone ==
    [ type |-> "NoneType" ]

PyList ==
    [ type |-> "list" ]

PyDict(elements) ==
    [ type |-> "dict", elements |-> elements ]

\* `if data:`
IsTruthy(data) ==
    data.type # "NoneType"

\* requests.post raised (timeout, connection error)
TransportError ==
    [ raised |-> "RequestException" ]

\* an answer with a status other than 200
Status503 ==
    [ raised |-> None, status |-> 503 ]

\* an answer with status 200 whose body is the JSON text of the value
Ok(value) ==
    [ raised |-> None, status |-> 200, decodable |-> TRUE, value |-> value ]

\* an answer with status 200 whose body is not JSON: response.json() raises
OkGarbage ==
    [ raised |-> None, status |-> 200, decodable |-> FALSE ]

EndpointIndex ==
    1..Len(OVERPASS_ENDPOINTS)

EndpointFailed(r) ==
    r.raised # None \/ r.status # 200

\* api_handler.py:239-276. responses[k] is what endpoint k does when contacted.
\* The result is the returned value and the number of endpoints contacted.
RECURSIVE call_overpass_api_from(_, _)
call_overpass_api_from(k, responses) ==
    IF k > Len(OVERPASS_ENDPOINTS) THEN [ data |-> PyNone, contacted |-> k - 1 ]
    ELSE LET response == responses[k]
         IN  IF response.raised # None THEN call_overpass_api_from(k + 1, responses)
             ELSE IF response.status = 200
                  THEN IF response.decodable
                       THEN [ data |-> response.value, contacted |-> k ]
                       ELSE call_overpass_api_from(k + 1, responses)
             ELSE call_overpass_api_from(k + 1, responses)

call_overpass_api(responses) ==
    call_overpass_api_from(1, responses)

\* api_handler.py:126-126 keyword list of the residential rule
residential_keywords ==
    { "perumahan", "apartemen", "rumah susun", "asrama", "cluster", "villa", "apartment",
      "residence", "housing", "dormitory" }

\* api_handler.py:132-132 keyword list of the education rule
education_keywords ==
    { "sd", "smp", "sma", "smk", "universitas", "tk", "paud", "pesantren", "lembaga kursus",
      "sekolah", "school", "university", "college", "academy", "institute", "pendidikan",
      "education", "training", "kursus", "course" }

\* api_handler.py:141-141 keyword list of the public_area rule
public_area_keywords ==
    { "taman kota", "alun-alun", "stasiun", "terminal", "tempat ibadah", "museum", "masjid",
      "gereja", "pura", "vihara", "klenteng", "mosque", "church", "temple", "synagogue",
      "park", "square", "station", "public area", "public space" }

\* api_handler.py:148-157 keyword list of the culinary rule
culinary_keywords ==
    { "restoran", "warung makan", "kedai kopi", "street food", "food court", "cafe",
      "restaurant", "warung", "warteg", "rumah makan", "kantin", "angkringan", "kedai",
      "bakery", "bakeri", "kue", "roti", "makanan", "minuman", "kuliner", "catering",
      "dapur", "food", "coffee", "kopi", "makan", "padang", "stall", "canteen", "warmindo",
      "warung mie", "warung bakso", "warung nasi", "fried chicken", "ayam goreng",
      "ayam geprek", "burger", "pizza", "steakhouse", "bbq", "barbecue", "seafood", "aneka",
      "jus", "juice", "milk", "tea", "teh", "ice cream", "es krim", "martabak", "depot",
      "eatery", "bakso", "mie ayam", "bebek", "nasi", "gado-gado", "sate", "satay", "soto",
      "gulai", "rendang", "pecel", "bistro", "kebab" }

\* api_handler.py:167-175 keyword list of the business_center rule
business_center_keywords ==
    { "gedung perkantoran", "ruko", "coworking space", "perkantoran", "office building",
      "office tower", "mall", "plaza", "pusat bisnis", "business center", "pasar", "market",
      "shop", "toko", "retail", "store", "supermarket", "department store",
      "pusat perbelanjaan", "shopping center", "shopping mall", "square", "trade center",
      "itc", "mangga dua", "tanah abang", "bazaar", "hypermarket", "carrefour", "giant",
      "lotte mart", "ramayana", "matahari", "metro", "transmart", "grand indonesia",
      "central park", "pondok indah", "teras kota" }

\* api_handler.py:181-189 keyword list of the groceries rule
groceries_keywords ==
    { "toko kelontong", "toko sembako", "toko sayur", "mini market", "mini mart",
      "fresh market", "pasar tradisional", "supermarket", "hypermarket", "grocery",
      "greengrocer", "butcher", "seafood", "deli", "spices", "bakery", "pasar", "market",
      "swalayan", "toserba", "giant", "carrefour", "lottemart", "ranch market",
      "farmers market", "transmart", "hero", "brastagi", "foodmart", "foodhall", "organic",
      "food market", "superindo", "grand lucky", "total buah", "buah", "sayur", "vegetables",
      "fruits", "meat", "daging", "food", "makanan", "pasaraya", "fresh", "segar",
      "toko buah", "groceries", "buah segar", "minimarket", "grosir", "wholesale", "retail",
      "super indo" }

\* api_handler.py:194-200 keyword list of the convenient_stores rule
convenient_stores_keywords ==
    { "indomaret", "alfamart", "alfamidi", "circle k", "family mart", "lawson", "7-eleven",
      "7 eleven", "seven eleven", "minimart", "mini mart", "mini market",
      "convenience store", "convenience", "toko kelontong", "warung kelontong", "kios",
      "kiosk", "toko", "mart", "eceran", "ritel", "minishop", "toko serba ada", "toko kecil",
      "wartel", "kiosco", "retail", "alfaexpress", "alfa midi", "alfa express", "indomart",
      "alfa", "indomaret point" }

\* api_handler.py:208-215 keyword list of the industrial rule
industrial_keywords ==
    { "pabrik", "factory", "industri", "industrial", "warehousing", "pergudangan", "gudang",
      "warehouse", "manufacturing", "kawasan industri", "workshop", "bengkel",
      "industrial estate", "industrial complex", "industrial park", "industrial area",
      "manufacture", "logistic", "logistik", "assembly", "assembling", "processing",
      "storage", "fabrikasi", "fabrication", "plant", "kilang", "depot", "garasi",
      "maintenance", "pemeliharaan", "perbaikan", "repair", "machining", "welding",
      "galvanizing", "forge", "foundry", "smelter", "refinery", "kiln", "mill", "manufaktur" }

\* api_handler.py:223-234 keyword list of the hospital_clinic rule
hospital_clinic_keywords ==
    { "rumah sakit", "hospital", "klinik", "clinic", "puskesmas", "bidan", "dokter",
      "doctor", "medical center", "pusat kesehatan", "rs", "apotek", "apotik", "pharmacy",
      "medical", "klinik gigi", "dental", "dentist", "orthodontist", "poliklinik",
      "laboratorium", "lab", "laboratory", "radiologi", "radiology", "ambulance", "ambulans",
      "icu", "igd", "ugd", "emergency", "physiotherapy", "fisioterapi", "rehab",
      "rehabilitasi", "rehabilitation", "psikiatri", "psychiatry", "psikologi", "psychology",
      "mental health", "kesehatan jiwa", "health", "medical service", "layanan kesehatan",
      "specialist", "spesialis", "care", "nursing", "perawatan", "therapy", "terapi",
      "orthopaedic", "orthopedic", "optometrist", "eye", "mata", "neurology", "saraf",
      "children", "anak", "ginekologi", "obstetri", "kanker", "cancer", "kardiovaskular",
      "cardiovascular", "jantung", "heart", "internist", "internal", "kulit", "skin",
      "urologi", "urology", "fertility", "reproduksi", "bedah", "surgery", "aesthetics",
      "kecantikan", "darurat", "intensive", "trauma" }

\* The element names used by the model, and for each the keywords that occur as
\* substrings of its lower-cased form (Python: keyword in name.lower()).
ModelNames == { "", "Warung Bu Tutik", "Superindo", "Jalan Mawar", "Klinik Sehat", "Toko Sumber" }

name_lower(name) ==
    CASE name = "" -> ""
      [] name = "Warung Bu Tutik" -> "warung bu tutik"
      [] name = "Superindo" -> "superindo"
      [] name = "Jalan Mawar" -> "jalan mawar"
      [] name = "Klinik Sehat" -> "klinik sehat"
      [] name = "Toko Sumber" -> "toko sumber"

Contains(lowered, keyword) ==
    CASE lowered = "" -> keyword \in {}
      [] lowered = "warung bu tutik" -> keyword \in {"warung"}
      [] lowered = "superindo" -> keyword \in {"superindo"}
      [] lowered = "jalan mawar" -> keyword \in {}
      [] lowered = "klinik sehat" -> keyword \in {"klinik"}
      [] lowered = "toko sumber" -> keyword \in {"toko"}

\* api_handler.py:123-127
is_residential(tags, name) ==
    \/ TagGet(tags, "building") \in { "residential", "apartments", "house", "dormitory" }
    \/ TagGet(tags, "landuse") = "residential"
    \/ TagGet(tags, "amenity") = "housing"
    \/ \E keyword \in residential_keywords : Contains(name_lower(name), keyword)

\* api_handler.py:130-133
is_education(tags, name) ==
    \/ TagGet(tags, "amenity") \in { "school", "university", "college", "kindergarten", "language_school", "education",
           "training" }
    \/ TagGet(tags, "building") \in { "school", "university", "college", "kindergarten", "education" }
    \/ \E keyword \in education_keywords : Contains(name_lower(name), keyword)

\* api_handler.py:136-142
is_public_area(tags, name) ==
    \/ TagGet(tags, "amenity") \in { "park", "community_centre", "marketplace", "place_of_worship", "bus_station",
           "terminal", "bus_stop", "ferry_terminal", "transportation", "public_building" }
    \/ TagGet(tags, "leisure") \in { "park", "garden", "playground" }
    \/ TagGet(tags, "tourism") \in { "museum", "gallery", "attraction" }
    \/ "public_transport" \in DOMAIN tags
    \/ TagGet(tags, "aeroway") \in { "aerodrome", "terminal" }
    \/ \E keyword \in public_area_keywords : Contains(name_lower(name), keyword)

\* api_handler.py:145-158
is_culinary(tags, name) ==
    \/ TagGet(tags, "amenity") \in { "restaurant", "cafe", "food_court", "fast_food", "bar", "pub", "bistro" }
    \/ TagGet(tags, "shop") \in { "bakery", "coffee", "tea", "convenience", "grocery", "supermarket", "food" }
    \/ "cuisine" \in DOMAIN tags
    \/ \E keyword \in culinary_keywords : Contains(name_lower(name), keyword)

\* api_handler.py:161-176
is_business_center(tags, name) ==
    \/ Truthy(TagGet(tags, "shop"))
    \/ TagGet(tags, "building") \in { "commercial", "office", "retail", "supermarket" }
    \/ TagGet(tags, "amenity") \in { "marketplace", "bank", "atm", "bureau_de_change", "business_center" }
    \/ "office" \in DOMAIN tags
    \/ TagGet(tags, "shop") \in { "mall", "supermarket", "department_store", "convenience", "marketplace" }
    \/ TagGet(tags, "landuse") \in { "commercial", "retail" }
    \/ \E keyword \in business_center_keywords : Contains(name_lower(name), keyword)

\* api_handler.py:179-190
is_groceries(tags, name) ==
    \/ TagGet(tags, "shop") \in { "supermarket", "grocery", "greengrocer", "butcher", "seafood", "deli", "spices",
           "bakery", "food" }
    \/ TagGet(tags, "amenity") = "marketplace"
    \/ \E keyword \in groceries_keywords : Contains(name_lower(name), keyword)

\* api_handler.py:193-201
is_convenient_stores(tags, name) ==
    \/ TagGet(tags, "shop") \in { "convenience", "kiosk" }
    \/ \E keyword \in convenient_stores_keywords : Contains(name_lower(name), keyword)

\* api_handler.py:204-216
is_industrial(tags, name) ==
    \/ TagGet(tags, "landuse") \in { "industrial", "factory" }
    \/ TagGet(tags, "building") \in { "industrial", "factory", "warehouse", "manufacture", "manufacturing" }
    \/ "industrial" \in DOMAIN tags
    \/ TagGet(tags, "man_made") \in { "works", "factory" }
    \/ \E keyword \in industrial_keywords : Contains(name_lower(name), keyword)

\* api_handler.py:219-235
is_hospital_clinic(tags, name) ==
    \/ TagGet(tags, "amenity") \in { "hospital", "clinic", "doctors", "healthcare", "dentist", "pharmacy", "veterinary",
           "health_centre" }
    \/ "healthcare" \in DOMAIN tags
    \/ TagGet(tags, "building") \in { "hospital", "clinic", "healthcare" }
    \/ TagGet(tags, "emergency") = "yes"
    \/ \E keyword \in hospital_clinic_keywords : Contains(name_lower(name), keyword)

\* ---------------------------------------------------------------------------
\* api_handler.check_nearby_facilities_simple, the part after a cache miss
\* ---------------------------------------------------------------------------

\* api_handler.py:44-66, the categories in the order of the query dictionary
Categories ==
    << "residential", "education", "public_area", "culinary", "business_center",
       "groceries", "convenient_stores", "industrial", "hospital_clinic" >>

CategorySet ==
    Range(Categories)

\* api_handler.py:107-117 and 300-310
AllFalse ==
    [ c \in CategorySet |-> FALSE ]

\* api_handler.py:123-235, the condition of the `if` statement of one category
category_rule(category, tags, name) ==
    CASE category = "residential" -> is_residential(tags, name)
      [] category = "education" -> is_education(tags, name)
      [] category = "public_area" -> is_public_area(tags, name)
      [] category = "culinary" -> is_culinary(tags, name)
      [] category = "business_center" -> is_business_center(tags, name)
      [] category = "groceries" -> is_groceries(tags, name)
      [] category = "convenient_stores" -> is_convenient_stores(tags, name)
      [] category = "industrial" -> is_industrial(tags, name)
      [] category = "hospital_clinic" -> is_hospital_clinic(tags, name)

\* a chain of elif: a category is looked at only while no other has matched
apply_rule_elif(result, category, tags, name) ==
    IF (\A other \in CategorySet : ~ result[other]) /\ category_rule(category, tags, name)
    THEN [ result EXCEPT ![category] = TRUE ]
    ELSE result

\* api_handler.py:123-235, one `if` statement: result[category] = True
apply_rule(result, category, tags, name) ==
    IF category_rule(category, tags, name)
    THEN [ result EXCEPT ![category] = TRUE ]
    ELSE result

\* the `if` statements of the categories of order, one after the other
RECURSIVE apply_rules(_, _, _, _)
apply_rules(order, result, tags, name) ==
    IF order = << >> THEN result
    ELSE apply_rules(Tail(order), apply_rule(result, Head(order), tags, name), tags, name)

\* api_handler.py:96-237
analyze_element_for_categories(tags, name) ==
    apply_rules(Categories, AllFalse, tags, name)

\* api_handler.py:369-379, does some element of the answer belong to the category
AnyElementInCategory(elements, category) ==
    \E i \in DOMAIN elements :
        LET tags == elements[i].tags
            name == DictGet(tags, "name", "")
        IN  analyze_element_for_categories(tags, name)[category]

\* api_handler.py:357-379, the per-category loop from category number i on.
\* env[c] is what the endpoints do when asked the query of category c.
\* data.get raises AttributeError when the decoded body is not a dict.
RECURSIVE per_category_loop(_, _, _)
per_category_loop(i, results, env) ==
    IF i > Len(Categories) THEN [ raised |-> None, results |-> results ]
    ELSE LET category == Categories[i]
             data == call_overpass_api(env[category]).data
         IN  IF ~ IsTruthy(data) THEN per_category_loop(i + 1, results, env)
             ELSE IF data.type # "dict" THEN [ raised |-> "AttributeError" ]
             ELSE IF AnyElementInCategory(data.elements, category)
                  THEN per_category_loop(i + 1, [ results EXCEPT ![category] = TRUE ], env)
             ELSE per_category_loop(i + 1, results, env)

\* api_handler.py:296-388 on a cache miss with USE_SIMPLIFIED_QUERIES set
classify(env) ==
    per_category_loop(1, AllFalse, env)

\* some query of the classification got an answer from the service
ObtainedData(env) ==
    \E c \in CategorySet : IsTruthy(call_overpass_api(env[c]).data)

\* every request of the classification failed at every endpoint
EveryRequestFails(env) ==
    \A c \in CategorySet : \A k \in EndpointIndex : EndpointFailed(env[c][k])

\* api_handler.py:291
cache_key(lat, lon, radius) ==
    << lat, lon, radius >>

\* ---------------------------------------------------------------------------
\* What the service answers in the model
\* ---------------------------------------------------------------------------

Restaurant ==
    [ tags |-> [ amenity |-> "restaurant", name |-> "Warung Bu Tutik" ] ]

Supermarket ==
    [ tags |-> [ shop |-> "supermarket", name |-> "Superindo" ] ]

Road ==
    [ tags |-> [ highway |-> "residential", name |-> "Jalan Mawar" ] ]

Down ==
    << TransportError, Status503, TransportError >>

\* every endpoint is down for every query
AllDown ==
    [ c \in CategorySet |-> Down ]

\* the first endpoint answers, nothing is near
NothingNear ==
    [ c \in CategorySet |-> << Ok(PyDict(<< >>)), Status503, Status503 >> ]

\* a restaurant is near; the first endpoint answers every query
RestaurantNear ==
    [ c \in CategorySet |->
        IF c = "culinary" THEN << Ok(PyDict(<< Road, Restaurant >>)), Status503, Status503 >>
        ELSE << Ok(PyDict(<< Road >>)), Status503, Status503 >> ]

\* a supermarket is near; the first endpoint is down, the second answers only
\* the shop queries
SupermarketFailover ==
    [ c \in CategorySet |->
        IF c \in { "culinary", "business_center", "groceries" }
        THEN << Status503, Ok(PyDict(<< Supermarket >>)), Status503 >>
        ELSE Down ]

\* the first endpoint answers the first query with a JSON list
Malformed ==
    [ c \in CategorySet |->
        IF c = "residential" THEN << Ok(PyList), Status503, Status503 >>
        ELSE << Ok(PyDict(<< >>)), Status503, Status503 >> ]

ServiceAnswers ==
    { AllDown, NothingNear, RestaurantNear, SupermarketFailover, Malformed }

\* ---------------------------------------------------------------------------
\* Result records (facility_analyzer.py)
\* ---------------------------------------------------------------------------

\* facility_analyzer.py:208-211, the result columns in the order of Categories
Columns ==
    << "Residential", "Education", "Public Area", "Culinary", "Business Center",
       "Groceries", "Convenient Stores", "Industrial", "Hospital/Clinic" >>

ColumnSet ==
    Range(Columns)

\* facility_analyzer.py:48-56, the category a column is filled from
CategoryOf(column) ==
    Categories[CHOOSE i \in DOMAIN Columns : Columns[i] = column]

\* a function result that is None (or any value `if result:` rejects)
NoResult ==
    << >>

\* `if result:`
HasResult(result) ==
    DOMAIN result # {}

\* facility_analyzer.py:43-57
result_record(outlet, lat, lon, nearby_facilities) ==
    ("Nama Outlet" :> outlet.nama) @@ ("Koordinat" :> outlet.koordinat)
        @@ ("Latitude" :> lat) @@ ("Longitude" :> lon)
        @@ [ column \in ColumnSet |-> nearby_facilities[CategoryOf(column)] ]

\* facility_analyzer.py:70-89, the value returned once the retries are used up
failure_record(outlet) ==
    LET parsed == parse_coordinates(outlet.koordinat)
    IN  IF parsed.raised # None THEN NoResult
        ELSE ("Nama Outlet" :> outlet.nama) @@ ("Koordinat" :> outlet.koordinat)
                 @@ ("Latitude" :> parsed.latitude) @@ ("Longitude" :> parsed.longitude)
                 @@ [ column \in ColumnSet |-> FALSE ]
                 @@ ("Error" :> "Failed to process after multiple retries")

\* facility_analyzer.py:214, `not any(result.get(category, False) ...)`
WithoutFacilities(result) ==
    ~ \E column \in ColumnSet : DictGet(result, column, FALSE)

\* facility_analyzer.py:184
processed_names(existing_results) ==
    { existing_results[i]["Nama Outlet"] : i \in DOMAIN existing_results }

\* a resume that skips as many outlets from the front as the checkpoint has
\* records, instead of matching by name
get_remaining_outlets_by_position(all_outlets, existing) ==
    SubSeq(all_outlets, Len(existing) + 1, Len(all_outlets))

\* a resume that takes the outlets of the failure records up again
get_remaining_outlets_retry_failed(all_outlets, existing) ==
    IF existing = << >> THEN all_outlets
    ELSE SelectSeq(all_outlets,
                   LAMBDA outlet : outlet.nama \notin
                       processed_names(SelectSeq(existing, LAMBDA r : "Error" \notin DOMAIN r)))

\* facility_analyzer.py:168-189
get_remaining_outlets(all_outlets, existing) ==
    IF existing = << >> THEN all_outlets
    ELSE SelectSeq(all_outlets, LAMBDA outlet : outlet.nama \notin processed_names(existing))

\* ---------------------------------------------------------------------------
\* The cache file (pickle) and the checkpoint file (JSON)
\* ---------------------------------------------------------------------------

NoFile ==
    [ exists |-> FALSE ]

\* a file that was opened for writing and not written to the end: it exists and
\* neither pickle.load nor json.load can read it
Unreadable ==
    [ exists |-> TRUE, unreadable |-> TRUE ]

Readable(file) ==
    file.exists /\ "unreadable" \notin DOMAIN file

\* a dump that leaves out the entries whose flags are all false
pickle_dump_positive(cache) ==
    [ exists |-> TRUE,
      items |-> { << k, cache[k] >> : k \in { k \in DOMAIN cache : cache[k] # AllFalse } } ]

\* pickle.dump(api_cache, f): the file holds one (key, value) item per entry
pickle_dump(cache) ==
    [ exists |-> TRUE, items |-> { << k, cache[k] >> : k \in DOMAIN cache } ]

\* pickle.load(f): the dictionary built from the items of the file
pickle_load(file) ==
    [ k \in { item[1] : item \in file.items } |->
        (CHOOSE item \in file.items : item[1] = k)[2] ]

\* json.dump(all_results, f) with open(PROGRESS_FILE, 'w'): the file is replaced
json_dump(all_results) ==
    [ exists |-> TRUE, records |-> all_results ]

\* facility_analyzer.py:149-166
check_resume_point(file) ==
    IF Readable(file) /\ file.records # << >> THEN file.records ELSE << >>

\* ---------------------------------------------------------------------------
\* Inputs of the model
\* ---------------------------------------------------------------------------

\* "1, 2"
K1 ==
    << "1", ",", " ", "2" >>

\* "1 2", the same place written with a space
K2 ==
    << "1", " ", "2" >>

\* "3, 1"
K3 ==
    << "3", ",", "1" >>

\* "1, x" cannot be parsed
KBad ==
    << "1", ",", "x" >>

Outlet(nama, koordinat) ==
    [ nama |-> nama, koordinat |-> koordinat ]

\* the outlet lists a run is started with
OutletLists ==
    { << >>,
      << Outlet("A", K1), Outlet("B", K2), Outlet("C", K1) >>,
      << Outlet("A", K1), Outlet("B", KBad), Outlet("C", K3) >> }

CulinaryOnly ==
    [ AllFalse EXCEPT !["culinary"] = TRUE ]

\* the checkpoint an earlier, interrupted run may have left behind
InitialCheckpoints ==
    { NoFile,
      json_dump(<< result_record(Outlet("A", K1), 1000, 2000, CulinaryOnly),
                   failure_record(Outlet("C", K1)) >>) }

\* ---------------------------------------------------------------------------
\* State
\* ---------------------------------------------------------------------------

VARIABLES
    outlets,           \* the outlet list the run was started with
    progress_file,     \* PROGRESS_FILE on disk
    cache_file,        \* CACHE_FILE on disk
    api_cache,         \* api_handler.api_cache
    pc,                \* position of the main thread
    existing_results,  \* main(): the checkpoint that is resumed
    results,           \* main(): the result list
    call,              \* the running call of batch_process_outlets
    tasks,             \* the futures of the current batch
    idr,               \* the running call of increase_detection_radius
    returned_true,     \* history: (key, category) pairs some call has returned true
    req,               \* one call of call_overpass_api, endpoint by endpoint
    probe              \* one application of a function to drawn inputs

mainVars ==
    << outlets, progress_file, pc, existing_results, results, call, tasks, idr,
       returned_true >>

cacheVars ==
    << cache_file, api_cache >>

vars ==
    << outlets, progress_file, cache_file, api_cache, pc, existing_results, results,
       call, tasks, idr, returned_true, req, probe >>

Idle ==
    [ pc |-> "idle" ]

NoCall ==
    [ caller |-> "none", outlets |-> << >>, radius |-> DEFAULT_RADIUS, i |-> 0,
      all_results |-> << >>, batch_results |-> << >>, history |-> << >>,
      max_workers |-> MaxWorkers ]

NoIdr ==
    [ indices |-> << >>, before |-> << >> ]

\* api_handler.py:14-26 and 844, load_cache() when the module is imported
load_cache(file, cache) ==
    IF ENABLE_CACHE /\ file.exists
    THEN IF Readable(file) THEN pickle_load(file) ELSE << >>
    ELSE cache

\* api_handler.py:28-38, the file after save_cache() when the write succeeds
save_cache(file, cache) ==
    IF ENABLE_CACHE THEN pickle_dump(cache) ELSE file

Init ==
    /\ outlets \in OutletLists
    /\ progress_file \in InitialCheckpoints
    /\ cache_file = NoFile
    /\ api_cache = load_cache(cache_file, << >>)
    /\ pc = "main"
    /\ existing_results = << >>
    /\ results = << >>
    /\ call = NoCall
    /\ tasks = << >>
    /\ idr = NoIdr
    /\ returned_true = {}
    /\ req = Idle
    /\ probe = Idle

\* ---------------------------------------------------------------------------
\* batch_process_outlets and its workers
\* ---------------------------------------------------------------------------

\* facility_analyzer.py:91 and 104-108, with the default max_workers
EnterBatch(caller, outlet_list, radius) ==
    [ caller |-> caller, outlets |-> outlet_list, radius |-> radius, i |-> 0,
      all_results |-> << >>, batch_results |-> << >>, history |-> << >>,
      max_workers |-> MaxWorkers ]

\* a number of batches that leaves out the last, shorter batch
num_batches_floor(total_outlets) ==
    total_outlets \div BatchSize

\* facility_analyzer.py:108
num_batches(total_outlets) ==
    (total_outlets + BatchSize - 1) \div BatchSize

\* facility_analyzer.py:112-114, batch number i (from 0)
batch_of(outlet_list, i) ==
    SubSeq(outlet_list, i * BatchSize + 1, Min((i + 1) * BatchSize, Len(outlet_list)))

NewTask(outlet) ==
    [ outlet |-> outlet, state |-> "pending", retries |-> 0, attempts |-> 0,
      waits |-> 0, lat |-> 0, lon |-> 0, facilities |-> AllFalse,
      queries |-> 0, requests_failed |-> TRUE, got_data |-> FALSE, returned |-> FALSE,
      prior_true |-> {}, result |-> NoResult ]

\* the tasks a worker thread is running
Running ==
    { j \in DOMAIN tasks : tasks[j].state \notin { "pending", "done", "collected" } }

\* facility_analyzer.py:111-121, one turn of the batch loop: submit the next batch,
\* or leave the loop
BatchLoop ==
    /\ pc = "bpo_loop"
    /\ IF call.i < num_batches(Len(call.outlets))
       THEN /\ tasks' = [ j \in DOMAIN batch_of(call.outlets, call.i) |->
                            NewTask(batch_of(call.outlets, call.i)[j]) ]
            /\ call' = [ call EXCEPT !.batch_results = << >> ]
            /\ pc' = "bpo_collect"
       ELSE /\ pc' = "bpo_save"
            /\ UNCHANGED << tasks, call >>
    /\ UNCHANGED << outlets, progress_file, existing_results, results, idr,
                    returned_true, cacheVars, req, probe >>

\* an executor that starts a thread for every task it is given
Dispatch_unbounded(j) ==
    /\ pc = "bpo_collect"
    /\ tasks[j].state = "pending"
    /\ \A i \in 1..(j - 1) : tasks[i].state # "pending"
    /\ tasks' = [ tasks EXCEPT ![j].state = "attempt" ]
    /\ UNCHANGED << outlets, progress_file, pc, existing_results, results, call, idr,
                    returned_true, cacheVars, req, probe >>

\* ThreadPoolExecutor(max_workers=max_workers): a free worker takes the oldest
\* queued task
Dispatch(j) ==
    /\ pc = "bpo_collect"
    /\ tasks[j].state = "pending"
    /\ Cardinality(Running) < call.max_workers
    /\ \A i \in 1..(j - 1) : tasks[i].state # "pending"
    /\ tasks' = [ tasks EXCEPT ![j].state = "attempt" ]
    /\ UNCHANGED << outlets, progress_file, pc, existing_results, results, call, idr,
                    returned_true, cacheVars, req, probe >>

TrueAt(key) ==
    { c \in CategorySet : << key, c >> \in returned_true }

\* a retry loop that goes round once more than max_retries allows
after_exception_once_more(t) ==
    [ t EXCEPT !.attempts = @ + 1, !.retries = @ + 1, !.waits = @ + 1,
               !.state = IF t.retries + 1 <= max_retries THEN "attempt" ELSE "done",
               !.result = IF t.retries + 1 <= max_retries THEN @
                          ELSE failure_record(t.outlet) ]

\* facility_analyzer.py:61-89: an attempt raised. Count it, sleep, and either go
\* round the loop again or leave it and return the record of a failed outlet
after_exception(t) ==
    [ t EXCEPT !.attempts = @ + 1, !.retries = @ + 1, !.waits = @ + 1,
               !.state = IF t.retries + 1 < max_retries THEN "attempt" ELSE "done",
               !.result = IF t.retries + 1 < max_retries THEN @
                          ELSE failure_record(t.outlet) ]

\* facility_analyzer.py:30-40 and api_handler.py:290-379: one turn of the retry
\* loop: parse the coordinate, look the key up in the cache and, on a miss, send
\* the queries of the classification
Attempt(j) ==
    /\ tasks[j].state = "attempt"
    /\ LET t == tasks[j]
           parsed == parse_coordinates(t.outlet.koordinat)
       IN  IF parsed.raised # None
           THEN /\ tasks' = [ tasks EXCEPT ![j] = after_exception(t) ]
                /\ UNCHANGED returned_true
           ELSE LET key == cache_key(parsed.latitude, parsed.longitude, call.radius)
                    called == [ t EXCEPT !.lat = parsed.latitude, !.lon = parsed.longitude,
                                         !.prior_true = TrueAt(key) ]
                IN  IF ENABLE_CACHE /\ key \in DOMAIN api_cache
                    THEN /\ tasks' = [ tasks EXCEPT ![j] =
                                 [ called EXCEPT !.attempts = @ + 1,
                                                 !.facilities = api_cache[key],
                                                 !.returned = TRUE,
                                                 !.result = result_record(t.outlet, parsed.latitude,
                                                                parsed.longitude, api_cache[key]),
                                                 !.state = "done" ] ]
                         /\ returned_true' = returned_true \cup
                                { << key, c >> : c \in { c \in CategorySet : api_cache[key][c] } }
                    ELSE /\ \E env \in ServiceAnswers :
                              LET outcome == classify(env)
                                  asked == [ called EXCEPT !.queries = @ + 1,
                                                 !.requests_failed = @ /\ EveryRequestFails(env) ]
                              IN  IF outcome.raised # None
                                  THEN tasks' = [ tasks EXCEPT ![j] = after_exception(asked) ]
                                  ELSE tasks' = [ tasks EXCEPT ![j] =
                                           [ asked EXCEPT !.attempts = @ + 1,
                                                          !.facilities = outcome.results,
                                                          !.got_data = ObtainedData(env),
                                                          !.state = "store" ] ]
                         /\ UNCHANGED returned_true
    /\ UNCHANGED << outlets, progress_file, pc, existing_results, results, call, idr,
                    cacheVars, req, probe >>

\* api_handler.py:381-383
Store(j) ==
    /\ tasks[j].state = "store"
    /\ LET t == tasks[j]
           key == cache_key(t.lat, t.lon, call.radius)
       IN  /\ IF ENABLE_CACHE
              THEN api_cache' = [ k \in DOMAIN api_cache \cup { key } |->
                                    IF k = key THEN t.facilities ELSE api_cache[k] ]
              ELSE UNCHANGED api_cache
           /\ tasks' = [ tasks EXCEPT ![j].state = "periodic" ]
    /\ UNCHANGED << outlets, progress_file, pc, existing_results, results, call, idr,
                    returned_true, cache_file, req, probe >>

\* api_handler.py:384-388 and facility_analyzer.py:43-59: the periodic save, the
\* return of the classification and the result record built from it
Periodic(j) ==
    /\ tasks[j].state = "periodic"
    /\ LET t == tasks[j]
           key == cache_key(t.lat, t.lon, call.radius)
       IN  /\ IF ENABLE_CACHE /\ Cardinality(DOMAIN api_cache) % SAVE_EVERY = 0
              THEN cache_file' = save_cache(cache_file, api_cache)
              ELSE UNCHANGED cache_file
           /\ tasks' = [ tasks EXCEPT ![j] =
                  [ t EXCEPT !.returned = TRUE,
                             !.result = result_record(t.outlet, t.lat, t.lon, t.facilities),
                             !.state = "done" ] ]
           /\ returned_true' = returned_true \cup
                  { << key, c >> : c \in { c \in CategorySet : t.facilities[c] } }
    /\ UNCHANGED << outlets, progress_file, pc, existing_results, results, call, idr,
                    api_cache, req, probe >>

\* a collection that leaves out the records of the outlets whose attempts all
\* failed
Collect_without_failures(j) ==
    /\ pc = "bpo_collect"
    /\ tasks[j].state = "done"
    /\ call' = [ call EXCEPT !.batch_results =
                    IF HasResult(tasks[j].result) /\ "Error" \notin DOMAIN tasks[j].result
                    THEN Append(@, tasks[j].result) ELSE @ ]
    /\ tasks' = [ tasks EXCEPT ![j] = [ NewTask(tasks[j].outlet) EXCEPT !.state = "collected" ] ]
    /\ UNCHANGED << outlets, progress_file, pc, existing_results, results, idr,
                    returned_true, cacheVars, req, probe >>

\* facility_analyzer.py:122-126: as_completed hands over a finished future
Collect(j) ==
    /\ pc = "bpo_collect"
    /\ tasks[j].state = "done"
    /\ call' = [ call EXCEPT !.batch_results =
                    IF HasResult(tasks[j].result) THEN Append(@, tasks[j].result) ELSE @ ]
    /\ tasks' = [ tasks EXCEPT ![j] = [ NewTask(tasks[j].outlet) EXCEPT !.state = "collected" ] ]
    /\ UNCHANGED << outlets, progress_file, pc, existing_results, results, idr,
                    returned_true, cacheVars, req, probe >>

\* a checkpoint that writes the records of the last batch only
Checkpoint_last_batch ==
    /\ pc = "bpo_collect"
    /\ \A j \in DOMAIN tasks : tasks[j].state = "collected"
    /\ progress_file' = json_dump(call.batch_results)
    /\ call' = [ call EXCEPT !.all_results = @ \o call.batch_results,
                             !.history = Append(@, call.batch_results),
                             !.i = @ + 1 ]
    /\ pc' = "bpo_loop"
    /\ UNCHANGED << outlets, existing_results, results, tasks, idr,
                    returned_true, cacheVars, req, probe >>

\* facility_analyzer.py:128-142: the batch is over; extend the results and rewrite
\* the checkpoint file
Checkpoint ==
    /\ pc = "bpo_collect"
    /\ \A j \in DOMAIN tasks : tasks[j].state = "collected"
    /\ LET all_results == call.all_results \o call.batch_results
       IN  /\ progress_file' = json_dump(all_results)
           /\ call' = [ call EXCEPT !.all_results = all_results,
                                    !.history = Append(@, call.batch_results),
                                    !.i = @ + 1 ]
    /\ pc' = "bpo_loop"
    /\ UNCHANGED << outlets, existing_results, results, tasks, idr,
                    returned_true, cacheVars, req, probe >>

\* facility_analyzer.py:144-147
SaveCacheAtEnd ==
    /\ pc = "bpo_save"
    /\ cache_file' = save_cache(cache_file, api_cache)
    /\ pc' = "bpo_return"
    /\ UNCHANGED << outlets, progress_file, existing_results, results, call, tasks, idr,
                    returned_true, api_cache, req, probe >>

\* ---------------------------------------------------------------------------
\* main() and increase_detection_radius
\* ---------------------------------------------------------------------------

\* main.py:87-151: read the checkpoint, ask whether to resume, start the analysis
MainStart ==
    /\ pc = "main"
    /\ \E resume \in BOOLEAN :
        LET existing == IF resume THEN check_resume_point(progress_file) ELSE << >>
            remaining == get_remaining_outlets(outlets, existing)
        IN  /\ existing_results' = existing
            /\ IF outlets = << >>
               THEN pc' = "done" /\ UNCHANGED << call, results >>
               ELSE IF existing # << >>
                    THEN IF remaining = << >>
                         THEN /\ results' = existing
                              /\ pc' = "analysed"
                              /\ UNCHANGED call
                         ELSE /\ call' = EnterBatch("resume", remaining, DEFAULT_RADIUS)
                              /\ pc' = "bpo_loop"
                              /\ UNCHANGED results
                    ELSE /\ call' = EnterBatch("main", outlets, DEFAULT_RADIUS)
                         /\ pc' = "bpo_loop"
                         /\ UNCHANGED results
    /\ UNCHANGED << outlets, progress_file, tasks, idr, returned_true,
                    cacheVars, req, probe >>

\* a merge that writes the updated records over the front of the list
merge_updated_in_front(result_list, indices, updated_results) ==
    [ i \in DOMAIN result_list |->
        IF i <= Min(Len(indices), Len(updated_results)) THEN updated_results[i]
        ELSE result_list[i] ]

\* facility_analyzer.py:232-234
merge_updated(result_list, indices, updated_results) ==
    [ i \in DOMAIN result_list |->
        IF \E k \in 1..Min(Len(indices), Len(updated_results)) : indices[k] = i
        THEN updated_results[CHOOSE k \in 1..Min(Len(indices), Len(updated_results)) :
                                indices[k] = i]
        ELSE result_list[i] ]

\* facility_analyzer.py:147 with main.py:133-136, main.py:151 and
\* facility_analyzer.py:229-236: batch_process_outlets returns to its caller
Return ==
    /\ pc = "bpo_return"
    /\ CASE call.caller = "resume" ->
                /\ results' = existing_results \o call.all_results
                /\ pc' = "analysed"
         [] call.caller = "main" ->
                /\ results' = call.all_results
                /\ pc' = "analysed"
         [] call.caller = "increase_detection_radius" ->
                /\ results' = merge_updated(results, idr.indices, call.all_results)
                /\ pc' = "escalated"
    /\ tasks' = << >>
    /\ UNCHANGED << outlets, progress_file, existing_results, call, idr,
                    returned_true, cacheVars, req, probe >>

\* facility_analyzer.py:213-220, the indices of the results without any facility
RECURSIVE indices_without_facilities(_, _)
indices_without_facilities(result_list, i) ==
    IF i > Len(result_list) THEN << >>
    ELSE IF WithoutFacilities(result_list[i])
         THEN << i >> \o indices_without_facilities(result_list, i + 1)
    ELSE indices_without_facilities(result_list, i + 1)

\* facility_analyzer.py:215-219
outlets_without_facilities(result_list) ==
    LET indices == indices_without_facilities(result_list, 1)
    IN  [ k \in DOMAIN indices |->
            [ nama |-> result_list[indices[k]]["Nama Outlet"],
              koordinat |-> result_list[indices[k]]["Koordinat"] ] ]

\* main.py:153-164 and facility_analyzer.py:202-229: with results at hand, the
\* user may ask for the pass at the larger radius
AfterAnalysis ==
    /\ pc = "analysed"
    /\ \E check_larger_radius \in BOOLEAN :
        IF results = << >> \/ ~ check_larger_radius
        THEN pc' = "done" /\ UNCHANGED << call, idr >>
        ELSE IF outlets_without_facilities(results) = << >>
             THEN pc' = "escalated" /\ UNCHANGED call
                  /\ idr' = [ indices |-> << >>, before |-> results ]
             ELSE /\ idr' = [ indices |-> indices_without_facilities(results, 1),
                              before |-> results ]
                  /\ call' = EnterBatch("increase_detection_radius",
                                        outlets_without_facilities(results), LARGER_RADIUS)
                  /\ pc' = "bpo_loop"
    /\ UNCHANGED << outlets, progress_file, existing_results, results, tasks,
                    returned_true, cacheVars, req, probe >>

\* main.py:166 onwards: the analysis part of the run is over
Finish ==
    /\ pc = "escalated"
    /\ pc' = "done"
    /\ UNCHANGED << outlets, progress_file, existing_results, results, call, tasks, idr,
                    returned_true, cacheVars, req, probe >>

Next ==
    \/ MainStart
    \/ BatchLoop
    \/ \E j \in DOMAIN tasks : Dispatch(j)
    \/ \E j \in DOMAIN tasks : Attempt(j)
    \/ \E j \in DOMAIN tasks : Store(j)
    \/ \E j \in DOMAIN tasks : Periodic(j)
    \/ \E j \in DOMAIN tasks : Collect(j)
    \/ Checkpoint
    \/ SaveCacheAtEnd
    \/ Return
    \/ AfterAnalysis
    \/ Finish

Spec ==
    Init /\ [][Next]_vars


\* ---------------------------------------------------------------------------
\* One call of batch_process_outlets
\* ---------------------------------------------------------------------------

\* the outlet lists one call is given: those of a run and a list of two full
\* batches
BatchInputs ==
    OutletLists \cup
        { << Outlet("A", K1), Outlet("B", KBad), Outlet("C", K2), Outlet("D", K3) >> }

\* the caches a call may find: empty, or filled by an earlier call
EarlierCaches ==
    { << >>,
      [ k \in { cache_key(1000, 2000, DEFAULT_RADIUS) } |-> CulinaryOnly ] }

\* facility_analyzer.py:91-108: the call has been entered with its arguments
InitBatch ==
    /\ outlets \in BatchInputs
    /\ progress_file = NoFile
    /\ cache_file = NoFile
    /\ api_cache \in EarlierCaches
    /\ pc = "bpo_loop"
    /\ existing_results = << >>
    /\ results = << >>
    /\ call = EnterBatch("main", outlets, DEFAULT_RADIUS)
    /\ tasks = << >>
    /\ idr = NoIdr
    /\ returned_true = {}
    /\ req = Idle
    /\ probe = Idle

NextBatch ==
    \/ BatchLoop
    \/ \E j \in DOMAIN tasks : Dispatch(j)
    \/ \E j \in DOMAIN tasks : Attempt(j)
    \/ \E j \in DOMAIN tasks : Store(j)
    \/ \E j \in DOMAIN tasks : Periodic(j)
    \/ \E j \in DOMAIN tasks : Collect(j)
    \/ Checkpoint
    \/ SaveCacheAtEnd

SpecBatch ==
    InitBatch /\ [][NextBatch]_vars

\* facility_analyzer.py:91-108: a call with any number of workers up to the default
InitWorkers ==
    /\ outlets \in BatchInputs \ { << >> }
    /\ progress_file = NoFile
    /\ cache_file = NoFile
    /\ api_cache = << >>
    /\ pc = "bpo_loop"
    /\ existing_results = << >>
    /\ results = << >>
    /\ \E max_workers \in 1..MaxWorkers :
        call = [ EnterBatch("main", outlets, DEFAULT_RADIUS) EXCEPT !.max_workers = max_workers ]
    /\ tasks = << >>
    /\ idr = NoIdr
    /\ returned_true = {}
    /\ req = Idle
    /\ probe = Idle

SpecWorkers ==
    InitWorkers /\ [][NextBatch]_vars

\* ---------------------------------------------------------------------------
\* One call of batch_process_outlets on a disk that fails
\* ---------------------------------------------------------------------------

\* a cache one entry short of the periodic save
AlmostFull ==
    [ k \in { cache_key(n, 0, DEFAULT_RADIUS) : n \in 1..(SAVE_EVERY - 1) } |-> AllFalse ]

\* what CACHE_FILE may be when the process starts
CacheFilesAtStart ==
    { NoFile, Unreadable, pickle_dump(AlmostFull) }

\* what a failed write leaves: the file as it was (open failed), or an unreadable
\* file (open truncated it and the dump stopped)
AfterFailedWrite(file) ==
    { file, Unreadable }

\* api_handler.py:12: the module is being imported
InitDisk ==
    /\ outlets \in OutletLists \ { << >> }
    /\ progress_file = NoFile
    /\ cache_file \in CacheFilesAtStart
    /\ api_cache = << >>
    /\ pc = "import"
    /\ existing_results = << >>
    /\ results = << >>
    /\ call = NoCall
    /\ tasks = << >>
    /\ idr = NoIdr
    /\ returned_true = {}
    /\ req = Idle
    /\ probe = [ pc |-> "disk", read_failed |-> FALSE, failed_writes |-> 0 ]

\* api_handler.py:844 and facility_analyzer.py:91-108: load_cache() at import, then
\* the call is entered
ImportLoad ==
    /\ pc = "import"
    /\ api_cache' = load_cache(cache_file, api_cache)
    /\ probe' = [ probe EXCEPT !.read_failed = cache_file.exists /\ ~ Readable(cache_file) ]
    /\ call' = EnterBatch("main", outlets, DEFAULT_RADIUS)
    /\ pc' = "bpo_loop"
    /\ UNCHANGED << outlets, progress_file, cache_file, existing_results, results, tasks,
                    idr, returned_true, req >>

\* api_handler.py:384-388 with 33-38: the periodic save raises and save_cache
\* catches it
PeriodicFails(j) ==
    /\ tasks[j].state = "periodic"
    /\ ENABLE_CACHE /\ Cardinality(DOMAIN api_cache) % SAVE_EVERY = 0
    /\ LET t == tasks[j]
           key == cache_key(t.lat, t.lon, call.radius)
       IN  /\ cache_file' \in AfterFailedWrite(cache_file)
           /\ tasks' = [ tasks EXCEPT ![j] =
                  [ t EXCEPT !.returned = TRUE,
                             !.result = result_record(t.outlet, t.lat, t.lon, t.facilities),
                             !.state = "done" ] ]
           /\ returned_true' = returned_true \cup
                  { << key, c >> : c \in { c \in CategorySet : t.facilities[c] } }
    /\ probe' = [ probe EXCEPT !.failed_writes = @ + 1 ]
    /\ UNCHANGED << outlets, progress_file, pc, existing_results, results, call, idr,
                    api_cache, req >>

\* a checkpoint write whose exception is not caught: the call ends there
CheckpointFails_uncaught ==
    /\ pc = "bpo_collect"
    /\ \A j \in DOMAIN tasks : tasks[j].state = "collected"
    /\ progress_file' \in AfterFailedWrite(progress_file)
    /\ call' = [ call EXCEPT !.all_results = @ \o call.batch_results ]
    /\ probe' = [ probe EXCEPT !.failed_writes = @ + 1 ]
    /\ pc' = "raised"
    /\ UNCHANGED << outlets, cache_file, api_cache, existing_results, results, tasks, idr,
                    returned_true, req >>

\* facility_analyzer.py:128-142: the checkpoint write raises and the except
\* clause logs it
CheckpointFails ==
    /\ pc = "bpo_collect"
    /\ \A j \in DOMAIN tasks : tasks[j].state = "collected"
    /\ progress_file' \in AfterFailedWrite(progress_file)
    /\ call' = [ call EXCEPT !.all_results = @ \o call.batch_results,
                             !.history = Append(@, call.batch_results),
                             !.i = @ + 1 ]
    /\ probe' = [ probe EXCEPT !.failed_writes = @ + 1 ]
    /\ pc' = "bpo_loop"
    /\ UNCHANGED << outlets, cache_file, api_cache, existing_results, results, tasks, idr,
                    returned_true, req >>

\* facility_analyzer.py:144-147 with api_handler.py:33-38: the save at the end
\* raises and save_cache catches it
SaveCacheAtEndFails ==
    /\ pc = "bpo_save"
    /\ ENABLE_CACHE
    /\ cache_file' \in AfterFailedWrite(cache_file)
    /\ probe' = [ probe EXCEPT !.failed_writes = @ + 1 ]
    /\ pc' = "bpo_return"
    /\ UNCHANGED << outlets, progress_file, api_cache, existing_results, results, call,
                    tasks, idr, returned_true, req >>

NextDisk ==
    \/ ImportLoad
    \/ BatchLoop
    \/ \E j \in DOMAIN tasks : Dispatch(j)
    \/ \E j \in DOMAIN tasks : Attempt(j)
    \/ \E j \in DOMAIN tasks : Store(j)
    \/ \E j \in DOMAIN tasks : Periodic(j)
    \/ \E j \in DOMAIN tasks : PeriodicFails(j)
    \/ \E j \in DOMAIN tasks : Collect(j)
    \/ Checkpoint
    \/ CheckpointFails
    \/ SaveCacheAtEnd
    \/ SaveCacheAtEndFails

SpecDisk ==
    InitDisk /\ [][NextDisk]_vars
\* ---------------------------------------------------------------------------
\* call_overpass_api, one endpoint at a time
\* ---------------------------------------------------------------------------

\* what an endpoint may do when it is contacted
Responses ==
    { TransportError, Status503, Ok(PyDict(<< Restaurant >>)), Ok(PyNone), OkGarbage }

IdleMain ==
    /\ outlets = << >>
    /\ progress_file = NoFile
    /\ pc = "idle"
    /\ existing_results = << >>
    /\ results = << >>
    /\ call = NoCall
    /\ tasks = << >>
    /\ idr = NoIdr
    /\ returned_true = {}

\* api_handler.py:239-250: the call starts with the first endpoint
InitApi ==
    /\ IdleMain
    /\ cache_file = NoFile
    /\ api_cache = << >>
    /\ probe = Idle
    /\ \E responses \in [ EndpointIndex -> Responses ] :
        req = [ pc |-> "loop", responses |-> responses, k |-> 1, contacted |-> << >>,
                returned |-> PyNone ]

\* a loop without fail-over: whatever the endpoint answers ends the call
Contact_once ==
    /\ req.pc = "loop"
    /\ req.k <= Len(OVERPASS_ENDPOINTS)
    /\ LET response == req.responses[req.k]
       IN  req' = [ req EXCEPT !.contacted = Append(@, req.k),
                               !.returned =
                                   IF response.raised = None /\ response.status = 200
                                      /\ response.decodable
                                   THEN response.value ELSE PyNone,
                               !.pc = "returned" ]
    /\ UNCHANGED << mainVars, cacheVars, probe >>

\* api_handler.py:250-273, one turn of the loop over the endpoints: the request
\* to endpoint k and what follows from its answer
Contact ==
    /\ req.pc = "loop"
    /\ req.k <= Len(OVERPASS_ENDPOINTS)
    /\ LET response == req.responses[req.k]
           contacted == Append(req.contacted, req.k)
       IN  IF response.raised # None
           THEN req' = [ req EXCEPT !.contacted = contacted, !.k = @ + 1 ]
           ELSE IF response.status = 200
                THEN IF response.decodable
                     THEN req' = [ req EXCEPT !.contacted = contacted,
                                              !.returned = response.value,
                                              !.pc = "returned" ]
                     ELSE req' = [ req EXCEPT !.contacted = contacted, !.k = @ + 1 ]
           ELSE req' = [ req EXCEPT !.contacted = contacted, !.k = @ + 1 ]
    /\ UNCHANGED << mainVars, cacheVars, probe >>

\* api_handler.py:275-276: every endpoint failed
Exhausted ==
    /\ req.pc = "loop"
    /\ req.k > Len(OVERPASS_ENDPOINTS)
    /\ req' = [ req EXCEPT !.returned = PyNone, !.pc = "returned" ]
    /\ UNCHANGED << mainVars, cacheVars, probe >>

NextApi ==
    \/ Contact
    \/ Exhausted

SpecApi ==
    InitApi /\ [][NextApi]_vars

\* ---------------------------------------------------------------------------
\* The cache and its file across a restart of the process
\* ---------------------------------------------------------------------------

CacheKeys ==
    { cache_key(1000, 2000, DEFAULT_RADIUS), cache_key(1000, 2000, LARGER_RADIUS),
      cache_key(3000, 1000, DEFAULT_RADIUS) }

CacheValues ==
    { AllFalse, CulinaryOnly, classify(SupermarketFailover).results }

\* a process that has just imported api_handler with no cache file on disk
InitCache ==
    /\ IdleMain
    /\ req = Idle
    /\ cache_file = NoFile
    /\ api_cache = load_cache(cache_file, << >>)
    /\ probe = [ pc |-> "running", last_put |-> << >>, saved_put |-> << >>,
                 saved |-> << >>, loaded |-> FALSE ]

\* api_handler.py:383, api_cache[cache_key] = results.copy()
CachePut(key, value) ==
    /\ probe.pc = "running"
    /\ api_cache' = [ k \in DOMAIN api_cache \cup { key } |->
                        IF k = key THEN value ELSE api_cache[k] ]
    /\ probe' = [ probe EXCEPT !.loaded = FALSE, !.last_put = << key, value >> ]
    /\ UNCHANGED << mainVars, cache_file, req >>

\* api_handler.py:28-38
CacheSave ==
    /\ probe.pc = "running"
    /\ cache_file' = save_cache(cache_file, api_cache)
    /\ probe' = [ probe EXCEPT !.saved = api_cache, !.saved_put = probe.last_put ]
    /\ UNCHANGED << mainVars, api_cache, req >>

\* api_handler.py:12 and 844: a new process starts with an empty dictionary and
\* calls load_cache()
CacheRestart ==
    /\ probe.pc = "running"
    /\ api_cache' = load_cache(cache_file, << >>)
    /\ probe' = [ probe EXCEPT !.loaded = TRUE, !.last_put = << >> ]
    /\ UNCHANGED << mainVars, cache_file, req >>

NextCache ==
    \/ \E key \in CacheKeys, value \in CacheValues : CachePut(key, value)
    \/ CacheSave
    \/ CacheRestart

SpecCache ==
    InitCache /\ [][NextCache]_vars

\* ---------------------------------------------------------------------------
\* get_remaining_outlets on drawn inputs
\* ---------------------------------------------------------------------------

\* longest outlet list drawn
MaxOutlets ==
    3

OutletNames ==
    { "A", "B", "C" }

NameOrder ==
    << "A", "B", "C" >>

\* a checkpoint holding one record for every name of the set
CheckpointOf(names) ==
    LET kept == SelectSeq(NameOrder, LAMBDA n : n \in names)
    IN  [ i \in DOMAIN kept |->
            IF kept[i] = "C" THEN failure_record(Outlet(kept[i], K1))
            ELSE result_record(Outlet(kept[i], K1), 1000, 2000, CulinaryOnly) ]

DrawnLists ==
    UNION { [ 1..n -> { Outlet(name, K1) : name \in OutletNames } ] : n \in 0..MaxOutlets }

InitResume ==
    /\ IdleMain
    /\ req = Idle
    /\ cache_file = NoFile
    /\ api_cache = << >>
    /\ \E all_outlets \in DrawnLists :
        \E names \in SUBSET { all_outlets[i].nama : i \in DOMAIN all_outlets } :
            probe = [ pc |-> "drawn", outlets |-> all_outlets,
                      existing |-> CheckpointOf(names), remaining |-> << >> ]

\* main.py:115
ApplyRemaining ==
    /\ probe.pc = "drawn"
    /\ probe' = [ probe EXCEPT !.pc = "applied",
                               !.remaining = get_remaining_outlets(probe.outlets, probe.existing) ]
    /\ UNCHANGED << mainVars, cacheVars, req >>

NextResume ==
    ApplyRemaining

SpecResume ==
    InitResume /\ [][NextResume]_vars

\* ---------------------------------------------------------------------------
\* indomaret_handler.IndomaretHandler
\* A coordinate is a number of thousandths of a degree, a distance a number of
\* ten-thousandths of a kilometre, Distance_KM a number of thousandths of a
\* kilometre.
\* ---------------------------------------------------------------------------

\* most stores a drawn competitor document holds
MaxStores ==
    3

\* JSON values of a field of a store: a number, a string, null (PyNone)
Number(value) ==
    [ type |-> "float", value |-> value ]

Text(chars) ==
    [ type |-> "str", chars |-> chars ]

\* indomaret_handler.py:50
required_fields ==
    << "Store", "Latitude", "Longitude", "Kecamatan" >>

\* indomaret_handler.py:28-63: the value returned and the list the handler holds
\* afterwards; the list is assigned before the first record is looked at
load_indomaret_data(file, indomaret_data) ==
    IF ~ Readable(file) THEN [ returned |-> FALSE, indomaret_data |-> indomaret_data ]
    ELSE IF file.document # << >>
         THEN LET sample == file.document[1]
              IN  [ returned |-> \A i \in DOMAIN required_fields : required_fields[i] \in DOMAIN sample,
                    indomaret_data |-> file.document ]
    ELSE [ returned |-> FALSE, indomaret_data |-> file.document ]

\* geopy.distance.geodesic(a, b).kilometers over a neighbourhood small enough to
\* be flat, a thousandth of a degree counting 100 m in both directions
geodesic(a, b) ==
    LET dlat == IF a[1] >= b[1] THEN a[1] - b[1] ELSE b[1] - a[1]
        dlon == IF a[2] >= b[2] THEN a[2] - b[2] ELSE b[2] - a[2]
        square == 1000 * 1000 * (dlat * dlat + dlon * dlon)
        longer == IF dlat >= dlon THEN dlat ELSE dlon
    IN  CHOOSE d \in (1000 * longer)..(1000 * (dlat + dlon)) :
            d * d <= square /\ square < (d + 1) * (d + 1)

\* round(distance, 3)
round_3(distance) ==
    (distance + 5) \div 10

\* indomaret_handler.py:86-89 and the ValueError of float()
IsCoordinate(value) ==
    value.type = "float" \/ (value.type = "str" /\ IsFloatLiteral(value.chars))

as_float(value) ==
    IF value.type = "str" THEN float(value.chars) ELSE value.value

\* indomaret_handler.py:78-109, one store of the loop: what it adds to nearby_stores
nearby_store(store, outlet_lat, outlet_lon, radius_km) ==
    LET store_lat == DictGet(store, "Latitude", PyNone)
        store_lon == DictGet(store, "Longitude", PyNone)
    IN  IF store_lat = PyNone \/ store_lon = PyNone THEN << >>
        ELSE IF ~ IsCoordinate(store_lat) \/ ~ IsCoordinate(store_lon) THEN << >>
        ELSE LET distance == geodesic(<< outlet_lat, outlet_lon >>,
                                      << as_float(store_lat), as_float(store_lon) >>)
             IN  IF distance <= radius_km
                 THEN << ("Distance_KM" :> round_3(distance)) @@ store >>
                 ELSE << >>

\* list.sort(key=lambda x: x['Distance_KM']): stores of equal distance keep their order
RECURSIVE sort_by_distance(_)
sort_by_distance(stores) ==
    IF stores = << >> THEN << >>
    ELSE LET last == stores[Len(stores)]
             front == sort_by_distance(SubSeq(stores, 1, Len(stores) - 1))
         IN  SelectSeq(front, LAMBDA s : s["Distance_KM"] <= last["Distance_KM"])
                 \o << last >>
                 \o SelectSeq(front, LAMBDA s : s["Distance_KM"] > last["Distance_KM"])

\* the loop of indomaret_handler.py:78-109
RECURSIVE nearby_stores(_, _, _, _)
nearby_stores(indomaret_data, outlet_lat, outlet_lon, radius_km) ==
    IF indomaret_data = << >> THEN << >>
    ELSE nearby_store(Head(indomaret_data), outlet_lat, outlet_lon, radius_km)
             \o nearby_stores(Tail(indomaret_data), outlet_lat, outlet_lon, radius_km)

\* a query that leaves the stores in the order of the document
get_indomaret_by_radius_unsorted(indomaret_data, outlet_lat, outlet_lon, radius_km) ==
    nearby_stores(indomaret_data, outlet_lat, outlet_lon, radius_km)

\* indomaret_handler.py:65-118
get_indomaret_by_radius(indomaret_data, outlet_lat, outlet_lon, radius_km) ==
    sort_by_distance(nearby_stores(indomaret_data, outlet_lat, outlet_lon, radius_km))

\* indomaret_handler.py:207-211 and 232-234
without_indomaret(outlet) ==
    ("Indomaret_Count" :> 0) @@ ("Indomaret_Stores" :> << >>) @@ ("Has_Indomaret" :> FALSE)
        @@ outlet

\* indomaret_handler.py:197-236, one outlet of the loop; a coordinate that is None
\* is a key the record does not have
enhanced_outlet(indomaret_data, outlet, radius_km) ==
    IF "Latitude" \notin DOMAIN outlet \/ "Longitude" \notin DOMAIN outlet
    THEN without_indomaret(outlet)
    ELSE LET nearby_indomaret == get_indomaret_by_radius(indomaret_data, outlet["Latitude"],
                                                         outlet["Longitude"], radius_km)
         IN  ("Indomaret_Count" :> Len(nearby_indomaret))
                 @@ ("Indomaret_Stores" :> nearby_indomaret)
                 @@ ("Has_Indomaret" :> (Len(nearby_indomaret) > 0))
                 @@ ("Indomaret_Search_Radius_KM" :> radius_km)
                 @@ outlet

\* indomaret_handler.py:176-247: the list returned, or the exception raised by
\* the average of line 245 when no outlet was given
enhance_outlet_data_with_indomaret(indomaret_data, outlet_results, radius_km) ==
    IF indomaret_data = << >> THEN [ raised |-> None, returned |-> outlet_results ]
    ELSE IF Len(outlet_results) = 0 THEN [ raised |-> "ZeroDivisionError" ]
    ELSE [ raised |-> None,
           returned |-> [ i \in DOMAIN outlet_results |->
                            enhanced_outlet(indomaret_data, outlet_results[i], radius_km) ] ]

\* the competitor stores of the drawn documents; the outlets stand at (1.110, 1.000)
\* and (1.113, 1.000)
StoreAt(name, latitude, longitude) ==
    ("Store" :> name) @@ ("Latitude" :> latitude) @@ ("Longitude" :> longitude)
        @@ ("Kecamatan" :> "MENTENG")

WithoutField(store, field) ==
    [ key \in DOMAIN store \ { field } |-> store[key] ]

Stores ==
    { StoreAt("0.4 km", Number(1114), Number(1000)),
      StoreAt("0.2 km", Text(<< "1", ".", "1", "1", "2" >>), Text(<< " ", "1" >>)),
      StoreAt("0.316 km", Number(1113), Number(1001)),
      StoreAt("0.5 km", Number(1110), Number(1005)),
      StoreAt("null", PyNone, Number(1000)),
      StoreAt("text", Number(1110), Text(<< "1", ",", "2" >>)),
      WithoutField(StoreAt("no latitude", Number(1111), Number(1000)), "Latitude"),
      WithoutField(StoreAt("no kecamatan", Number(1111), Number(1000)), "Kecamatan") }

json_document(document) ==
    [ exists |-> TRUE, document |-> document ]

IndomaretFiles ==
    { NoFile, Unreadable }
        \cup { json_document(document) :
                 document \in UNION { [ 1..n -> Stores ] : n \in 0..MaxStores } }

\* radius_km of the calls: 0.3 km, 0.5 km
Radii ==
    { 3000, 5000 }

\* the analysed outlets handed to the enrichment
AnalysedOutlets ==
    { << >>,
      << result_record(Outlet("A", K1), 1110, 1000, CulinaryOnly) >>,
      << result_record(Outlet("A", K1), 1110, 1000, CulinaryOnly),
         WithoutField(result_record(Outlet("B", K1), 1110, 1000, AllFalse), "Longitude"),
         result_record(Outlet("C", K3), 1113, 1000, AllFalse) >> }

\* main.py:64-68, before the handler is built
InitIndomaret ==
    /\ IdleMain
    /\ req = Idle
    /\ cache_file = NoFile
    /\ api_cache = << >>
    /\ \E file \in IndomaretFiles :
        probe = [ pc |-> "file", file |-> file, indomaret_data |-> << >> ]

\* indomaret_handler.py:17-26, IndomaretHandler(indomaret_file)
NewIndomaretHandler ==
    /\ probe.pc = "file"
    /\ LET loaded == load_indomaret_data(probe.file, << >>)
       IN  probe' = [ pc |-> "handler", file |-> probe.file,
                      indomaret_data |-> loaded.indomaret_data, loaded |-> loaded.returned ]
    /\ UNCHANGED << mainVars, cacheVars, req >>

\* one call of get_indomaret_by_radius on the handler
Nearby ==
    /\ probe.pc = "handler"
    /\ \E outlet_lat \in { 1110, 1113 }, radius_km \in Radii :
        probe' = [ pc |-> "nearby", file |-> probe.file, indomaret_data |-> probe.indomaret_data,
                   loaded |-> probe.loaded,
                   outlet_lat |-> outlet_lat, outlet_lon |-> 1000, radius_km |-> radius_km,
                   returned |-> get_indomaret_by_radius(probe.indomaret_data, outlet_lat, 1000, radius_km) ]
    /\ UNCHANGED << mainVars, cacheVars, req >>

\* one call of enhance_outlet_data_with_indomaret on the handler
Enhance ==
    /\ probe.pc = "handler"
    /\ \E outlet_results \in AnalysedOutlets, radius_km \in Radii :
        probe' = [ pc |-> "enhance", file |-> probe.file, indomaret_data |-> probe.indomaret_data,
                   loaded |-> probe.loaded,
                   outlet_results |-> outlet_results, radius_km |-> radius_km,
                   result |-> enhance_outlet_data_with_indomaret(probe.indomaret_data, outlet_results, radius_km) ]
    /\ UNCHANGED << mainVars, cacheVars, req >>

NextIndomaret ==
    \/ NewIndomaretHandler
    \/ Nearby
    \/ Enhance

SpecIndomaret ==
    InitIndomaret /\ [][NextIndomaret]_vars

\* ---------------------------------------------------------------------------
\* facility_analyzer.generate_summary_report; result_list is its parameter results
\* ---------------------------------------------------------------------------

\* facility_analyzer.py:324, sum(1 for category in categories if result.get(category, False))
facility_count(result) ==
    Cardinality({ column \in ColumnSet : DictGet(result, column, FALSE) })

\* a loop that keeps the first outlet of a tie only
RECURSIVE best_outlets_loop_first(_, _, _)
best_outlets_loop_first(result_list, max_facilities, best_outlets) ==
    IF result_list = << >> THEN [ max_facilities |-> max_facilities, best_outlets |-> best_outlets ]
    ELSE IF facility_count(Head(result_list)) > max_facilities
         THEN best_outlets_loop_first(Tail(result_list), facility_count(Head(result_list)),
                                      << Head(result_list)["Nama Outlet"] >>)
    ELSE best_outlets_loop_first(Tail(result_list), max_facilities, best_outlets)

\* facility_analyzer.py:320-329, the loop from the values it has reached
RECURSIVE best_outlets_loop(_, _, _)
best_outlets_loop(result_list, max_facilities, best_outlets) ==
    IF result_list = << >> THEN [ max_facilities |-> max_facilities, best_outlets |-> best_outlets ]
    ELSE IF facility_count(Head(result_list)) > max_facilities
         THEN best_outlets_loop(Tail(result_list), facility_count(Head(result_list)),
                                << Head(result_list)["Nama Outlet"] >>)
    ELSE IF facility_count(Head(result_list)) = max_facilities
         THEN best_outlets_loop(Tail(result_list), max_facilities,
                                Append(best_outlets, Head(result_list)["Nama Outlet"]))
    ELSE best_outlets_loop(Tail(result_list), max_facilities, best_outlets)

\* facility_analyzer.py:313-317: the count and the percentage (in thousandths)
category_counts(result_list) ==
    [ column \in ColumnSet |->
        LET count == Cardinality({ i \in DOMAIN result_list : DictGet(result_list[i], column, FALSE) })
        IN  << count, (count * 100 * 1000) \div Len(result_list) >> ]

\* facility_analyzer.py:293-339; None for an empty list
generate_summary_report(result_list) ==
    IF result_list = << >> THEN NoResult
    ELSE LET best == best_outlets_loop(result_list, 0, << >>)
         IN  [ total_outlets |-> Len(result_list),
               category_stats |-> category_counts(result_list),
               max_facilities |-> best.max_facilities,
               best_outlets |-> best.best_outlets ]

\* the records of the result lists a summary is asked for
SummaryRecords ==
    { result_record(Outlet(nama, K1), 1000, 2000, nearby) :
        nama \in { "A", "B" },
        nearby \in { AllFalse, CulinaryOnly, [ CulinaryOnly EXCEPT !["groceries"] = TRUE ] } }
        \cup { failure_record(Outlet("C", K1)) }

\* main.py:293, before the summary is made
InitSummary ==
    /\ IdleMain
    /\ req = Idle
    /\ cache_file = NoFile
    /\ api_cache = << >>
    /\ \E n \in 0..MaxOutlets :
        \E drawn \in [ 1..n -> SummaryRecords ] :
            probe = [ pc |-> "results", results |-> drawn, summary |-> NoResult ]

\* main.py:293, summary = generate_summary_report(result_list)
Summarise ==
    /\ probe.pc = "results"
    /\ probe' = [ probe EXCEPT !.pc = "summary",
                               !.summary = generate_summary_report(probe.results) ]
    /\ UNCHANGED << mainVars, cacheVars, req >>

SpecSummary ==
    InitSummary /\ [][Summarise]_vars

\* ---------------------------------------------------------------------------
\* parse_coordinates on drawn strings
\* ---------------------------------------------------------------------------

\* longest coordinate string drawn
MaxLen ==
    5

Alphabet ==
    { "1", "2", ".", "-", ",", " ", "x" }

\* facility_analyzer.py:37, before the coordinate column of an outlet is parsed
InitParse ==
    /\ IdleMain
    /\ req = Idle
    /\ cache_file = NoFile
    /\ api_cache = << >>
    /\ \E n \in 0..MaxLen :
        \E coord_str \in [ 1..n -> Alphabet ] :
            probe = [ pc |-> "string", coord_str |-> coord_str ]

\* facility_analyzer.py:37, lat, lon = parse_coordinates(coord_str)
Parse ==
    /\ probe.pc = "string"
    /\ probe' = [ pc |-> "parsed", coord_str |-> probe.coord_str,
                  result |-> parse_coordinates(probe.coord_str) ]
    /\ UNCHANGED << mainVars, cacheVars, req >>

SpecParse ==
    InitParse /\ [][Parse]_vars

\* ---------------------------------------------------------------------------
\* analyze_element_for_categories, one `if` statement at a time
\* ---------------------------------------------------------------------------

Clinic ==
    [ tags |-> [ amenity |-> "clinic", name |-> "Klinik Sehat" ] ]

Marketplace ==
    [ tags |-> [ amenity |-> "marketplace" ] ]

Convenience ==
    [ tags |-> [ shop |-> "convenience", name |-> "Superindo" ] ]

House ==
    [ tags |-> [ building |-> "house", landuse |-> "industrial" ] ]

\* the features the service knows
Features ==
    { Restaurant, Supermarket, Road, Clinic, Marketplace, Convenience, House }

\* api_handler.py:107-120, the result dictionary before the first `if`
InitClassify ==
    /\ IdleMain
    /\ req = Idle
    /\ cache_file = NoFile
    /\ api_cache = << >>
    /\ \E element \in Features :
        probe = [ pc |-> "rules", tags |-> element.tags,
                  name |-> DictGet(element.tags, "name", ""),
                  evaluated |-> {}, result |-> AllFalse ]

\* api_handler.py:123-235, the `if` statement of one category, the statements
\* taken in any order
EvaluateRule(category) ==
    /\ probe.pc = "rules"
    /\ category \notin probe.evaluated
    /\ probe' = [ probe EXCEPT !.evaluated = @ \cup { category },
                               !.result = apply_rule(@, category, probe.tags, probe.name) ]
    /\ UNCHANGED << mainVars, cacheVars, req >>

NextClassify ==
    \E category \in CategorySet : EvaluateRule(category)

SpecClassify ==
    InitClassify /\ [][NextClassify]_vars

\* ---------------------------------------------------------------------------
\* check_nearby_facilities_simple and get_nearby_places_detail on one outlet
\* ---------------------------------------------------------------------------

\* most features the service returns for a query
MaxFeatures ==
    2

\* `keyword in tags.get(key, "")`; a tag value of Features contains a keyword of
\* the chain only when it is that keyword
InTag(keyword, tags, key) ==
    DictGet(tags, key, "") = keyword

\* `keyword in name.lower()`
InName(keyword, name) ==
    Contains(name_lower(name), keyword)

\* a chain that asks the name before the tags
culinary_place_type_by_name(tags, name) ==
    IF InName("warung", name) \/ InName("warteg", name) THEN "Warung"
    ELSE IF InTag("restaurant", tags, "amenity") \/ InName("restoran", name) THEN "Restaurant"
    ELSE "Food & Beverage"

\* api_handler.py:691-713, place_type of an element of the culinary category
culinary_place_type(tags, name) ==
    IF InTag("restaurant", tags, "amenity") \/ InName("restoran", name) THEN "Restaurant"
    ELSE IF InTag("cafe", tags, "amenity") \/ InName("cafe", name) \/ InName("kafe", name)
         THEN "Cafe"
    ELSE IF InTag("food_court", tags, "amenity") \/ InName("food court", name) THEN "Food Court"
    ELSE IF InTag("fast_food", tags, "amenity") \/ InName("fast food", name) THEN "Fast Food"
    ELSE IF InName("warmindo", name) THEN "Warmindo"
    ELSE IF InName("warung", name) \/ InName("warteg", name) THEN "Warung"
    ELSE IF InName("kedai", name) THEN "Kedai"
    ELSE IF InTag("bakery", tags, "shop") \/ InName("bakery", name) \/ InName("roti", name)
         THEN "Bakery"
    ELSE IF InTag("coffee", tags, "shop") \/ InName("kopi", name) THEN "Coffee Shop"
    ELSE IF \E x \in { "ayam", "chicken", "bakso", "mie", "nasi", "soto", "pecel" } : InName(x, name)
         THEN "Food Stall"
    ELSE "Food & Beverage"

\* `any(x in name.lower() for x in keywords)`
AnyInName(keywords, name) ==
    \E x \in keywords : InName(x, name)

\* api_handler.py:645-655
residential_place_type(tags, name) ==
    IF DictGet(tags, "building", None) \in { "apartments", "dormitory" } THEN "Apartment/Dormitory"
    ELSE IF DictGet(tags, "building", None) = "house" THEN "House"
    ELSE IF InName("cluster", name) \/ InName("villa", name) THEN "Cluster/Villa"
    ELSE IF InName("perumahan", name) THEN "Housing Complex"
    ELSE "Residential Area"

\* api_handler.py:657-669
education_place_type(tags, name) ==
    IF InTag("university", tags, "amenity") \/ InName("universitas", name) THEN "University"
    ELSE IF InTag("school", tags, "amenity")
            \/ AnyInName({ "sd", "smp", "sma", "smk", "sekolah" }, name) THEN "School"
    ELSE IF InTag("kindergarten", tags, "amenity") \/ AnyInName({ "tk", "paud" }, name)
         THEN "Kindergarten"
    ELSE IF InName("pesantren", name) THEN "Islamic Boarding School"
    ELSE IF AnyInName({ "kursus", "course", "training" }, name) THEN "Course/Training Center"
    ELSE "Educational Institution"

\* api_handler.py:671-689
public_area_place_type(tags, name) ==
    IF InTag("hospital", tags, "amenity") \/ AnyInName({ "rumah sakit", "rs" }, name)
    THEN "Hospital"
    ELSE IF InTag("clinic", tags, "amenity") \/ AnyInName({ "klinik", "puskesmas" }, name)
         THEN "Clinic"
    ELSE IF InTag("park", tags, "leisure") \/ InName("taman", name) THEN "Park"
    ELSE IF InTag("place_of_worship", tags, "amenity")
            \/ AnyInName({ "masjid", "gereja", "pura", "vihara", "klenteng" }, name)
         THEN "Place of Worship"
    ELSE IF InTag("museum", tags, "tourism") \/ InName("museum", name) THEN "Museum"
    ELSE IF InTag("bus_station", tags, "amenity") \/ InName("terminal", name)
         THEN "Bus Station/Terminal"
    ELSE IF InTag("station", tags, "public_transport") \/ InName("stasiun", name)
         THEN "Train/Metro Station"
    ELSE IF InTag("terminal", tags, "aeroway") \/ AnyInName({ "bandara", "airport" }, name)
         THEN "Airport"
    ELSE "Public Facility"

\* api_handler.py:715-735
business_center_place_type(tags, name) ==
    IF InTag("office", tags, "building") \/ InName("perkantoran", name) THEN "Office Building"
    ELSE IF InName("ruko", name) THEN "Shophouse"
    ELSE IF InName("coworking", name) THEN "Coworking Space"
    ELSE IF InTag("industrial", tags, "landuse") \/ InName("kawasan industri", name)
         THEN "Industrial Area"
    ELSE IF InTag("supermarket", tags, "shop") \/ InName("supermarket", name) THEN "Supermarket"
    ELSE IF InTag("mall", tags, "shop") \/ AnyInName({ "mall", "plaza" }, name)
         THEN "Shopping Mall"
    ELSE IF InTag("marketplace", tags, "amenity") \/ AnyInName({ "pasar", "market" }, name)
         THEN "Market"
    ELSE IF InTag("convenience", tags, "shop") \/ AnyInName({ "alfamart", "indomaret" }, name)
         THEN "Convenience Store"
    ELSE IF "shop" \in DOMAIN tags THEN "Shop"
    ELSE "Commercial Area"

\* api_handler.py:738-756
groceries_place_type(tags, name) ==
    IF InTag("supermarket", tags, "shop") \/ InName("supermarket", name) THEN "Supermarket"
    ELSE IF InTag("grocery", tags, "shop") \/ AnyInName({ "grocery", "sembako" }, name)
         THEN "Grocery Store"
    ELSE IF InTag("greengrocer", tags, "shop") \/ AnyInName({ "sayur", "buah" }, name)
         THEN "Greengrocer/Fruit Shop"
    ELSE IF InTag("butcher", tags, "shop") \/ AnyInName({ "daging", "meat" }, name)
         THEN "Butcher Shop"
    ELSE IF InTag("seafood", tags, "shop") \/ InName("seafood", name) THEN "Seafood Shop"
    ELSE IF InTag("marketplace", tags, "amenity") \/ AnyInName({ "pasar", "market" }, name)
         THEN "Traditional Market"
    ELSE IF InTag("bakery", tags, "shop") \/ AnyInName({ "bakery", "roti" }, name) THEN "Bakery"
    ELSE IF InName("kelontong", name) THEN "Small Grocery"
    ELSE "Grocery Store"

\* api_handler.py:758-778
convenient_stores_place_type(tags, name) ==
    IF InName("indomaret", name) THEN "Indomaret"
    ELSE IF AnyInName({ "alfamart", "alfamidi", "alfa" }, name) THEN "Alfamart/Alfamidi"
    ELSE IF InName("circle k", name) THEN "Circle K"
    ELSE IF InName("family mart", name) THEN "Family Mart"
    ELSE IF InName("lawson", name) THEN "Lawson"
    ELSE IF AnyInName({ "7-eleven", "7 eleven", "seven eleven" }, name) THEN "7-Eleven"
    ELSE IF AnyInName({ "minimart", "mini mart", "mini market" }, name) THEN "Mini Market"
    ELSE IF InTag("convenience", tags, "shop") \/ InName("convenience", name)
         THEN "Convenience Store"
    ELSE IF InTag("kiosk", tags, "shop") \/ AnyInName({ "kios", "warung" }, name)
         THEN "Kiosk/Small Shop"
    ELSE "Convenience Store"

\* api_handler.py:780-792
industrial_place_type(tags, name) ==
    IF InTag("factory", tags, "building") \/ AnyInName({ "pabrik", "factory" }, name)
    THEN "Factory"
    ELSE IF InTag("warehouse", tags, "building") \/ AnyInName({ "gudang", "warehouse" }, name)
         THEN "Warehouse"
    ELSE IF InTag("industrial", tags, "landuse")
            \/ AnyInName({ "kawasan industri", "industrial" }, name) THEN "Industrial Area"
    ELSE IF InTag("workshop", tags, "industrial") \/ AnyInName({ "bengkel", "workshop" }, name)
         THEN "Workshop"
    ELSE IF InTag("manufacturing", tags, "building")
            \/ AnyInName({ "manufacturing", "manufaktur" }, name) THEN "Manufacturing Facility"
    ELSE "Industrial Facility"

\* api_handler.py:794-810
hospital_clinic_place_type(tags, name) ==
    IF InTag("hospital", tags, "amenity") \/ AnyInName({ "rumah sakit", "hospital", "rs" }, name)
    THEN "Hospital"
    ELSE IF InTag("clinic", tags, "amenity") \/ AnyInName({ "klinik", "clinic" }, name)
         THEN "Clinic"
    ELSE IF InTag("doctors", tags, "amenity") \/ AnyInName({ "dokter", "doctor" }, name)
         THEN "Doctor's Office"
    ELSE IF InTag("pharmacy", tags, "amenity")
            \/ AnyInName({ "apotek", "apotik", "pharmacy" }, name) THEN "Pharmacy"
    ELSE IF InTag("dentist", tags, "amenity") \/ AnyInName({ "gigi", "dental" }, name)
         THEN "Dental Clinic"
    ELSE IF AnyInName({ "puskesmas", "health center", "health centre" }, name)
         THEN "Community Health Center"
    ELSE IF AnyInName({ "laboratory", "lab", "laboratorium" }, name) THEN "Medical Laboratory"
    ELSE "Healthcare Facility"

\* a chain that labels what no rule matches "Unknown" followed by the category
place_type_unknown(category, tags, name) ==
    "Unknown " \o category

\* api_handler.py:642-810, place_type: "Unknown", then the chain of the category
place_type(category, tags, name) ==
    CASE category = "residential" -> residential_place_type(tags, name)
      [] category = "education" -> education_place_type(tags, name)
      [] category = "public_area" -> public_area_place_type(tags, name)
      [] category = "culinary" -> culinary_place_type(tags, name)
      [] category = "business_center" -> business_center_place_type(tags, name)
      [] category = "groceries" -> groceries_place_type(tags, name)
      [] category = "convenient_stores" -> convenient_stores_place_type(tags, name)
      [] category = "industrial" -> industrial_place_type(tags, name)
      [] category = "hospital_clinic" -> hospital_clinic_place_type(tags, name)
      [] OTHER -> "Unknown"

\* api_handler.py:611, the cache key of a detail query
detail_key(lat, lon, category, radius) ==
    << "detail", lat, lon, category, radius >>

\* api_handler.py:631-832, the loop over the elements; the elements of the model
\* carry no position
RECURSIVE places_of(_, _)
places_of(elements, category) ==
    IF elements = << >> THEN << >>
    ELSE LET tags == Head(elements).tags
             name == DictGet(tags, "name", "")
         IN  ( IF analyze_element_for_categories(tags, name)[category]
               THEN << [ name |-> IF name # "" THEN name ELSE "Unnamed",
                         type |-> place_type(category, tags, name),
                         lat |-> None, lon |-> None, tags |-> tags ] >>
               ELSE << >> )
                 \o places_of(Tail(elements), category)

\* api_handler.py:599-841 on a cache miss: what the call returns or raises
get_nearby_places_detail(responses, category) ==
    LET data == call_overpass_api(responses).data
    IN  IF ~ IsTruthy(data) THEN [ raised |-> None, places |-> << >> ]
        ELSE IF data.type # "dict" THEN [ raised |-> "AttributeError" ]
        ELSE [ raised |-> None, places |-> places_of(data.elements, category) ]

\* the service returns the same features for every query
Near(elements) ==
    [ c \in CategorySet |-> << Ok(PyDict(elements)), Status503, Status503 >> ]

\* an outlet at (-6.2, 106.8) before it is classified
InitDetail ==
    /\ IdleMain
    /\ req = Idle
    /\ cache_file = NoFile
    /\ api_cache = << >>
    /\ \E env \in { AllDown, Malformed }
                   \cup { Near(elements) :
                            elements \in UNION { [ 1..n -> Features ] : n \in 0..MaxFeatures } } :
        probe = [ pc |-> "outlet", lat |-> 0 - 6200, lon |-> 106800, env |-> env,
                  checked |-> FALSE, detailed |-> FALSE ]

\* api_handler.py:278-388, check_nearby_facilities_simple(lat, lon, DEFAULT_RADIUS)
CheckNearby ==
    /\ probe.pc = "outlet"
    /\ ~ probe.checked
    /\ LET key == cache_key(probe.lat, probe.lon, DEFAULT_RADIUS)
           outcome == IF ENABLE_CACHE /\ key \in DOMAIN api_cache
                      THEN [ raised |-> None, results |-> api_cache[key] ]
                      ELSE classify(probe.env)
           stored == IF ENABLE_CACHE /\ key \notin DOMAIN api_cache /\ outcome.raised = None
                     THEN (key :> outcome.results) @@ api_cache
                     ELSE api_cache
       IN  /\ api_cache' = stored
           /\ cache_file' = IF stored # api_cache /\ Cardinality(DOMAIN stored) % SAVE_EVERY = 0
                            THEN save_cache(cache_file, stored)
                            ELSE cache_file
           /\ probe' = [ pc |-> "outlet", lat |-> probe.lat, lon |-> probe.lon, env |-> probe.env,
                         checked |-> TRUE, detailed |-> probe.detailed, nearby |-> outcome ]
                           @@ probe
    /\ UNCHANGED << mainVars, req >>

\* api_handler.py:599-841, get_nearby_places_detail(lat, lon, 'culinary', DEFAULT_RADIUS)
DetailCulinary ==
    /\ probe.pc = "outlet"
    /\ ~ probe.detailed
    /\ LET key == detail_key(probe.lat, probe.lon, "culinary", DEFAULT_RADIUS)
           outcome == IF ENABLE_CACHE /\ key \in DOMAIN api_cache
                      THEN [ raised |-> None, places |-> api_cache[key] ]
                      ELSE get_nearby_places_detail(probe.env["culinary"], "culinary")
           stored == IF ENABLE_CACHE /\ key \notin DOMAIN api_cache /\ outcome.raised = None
                     THEN (key :> outcome.places) @@ api_cache
                     ELSE api_cache
       IN  /\ api_cache' = stored
           /\ cache_file' = IF stored # api_cache /\ Cardinality(DOMAIN stored) % SAVE_EVERY = 0
                            THEN save_cache(cache_file, stored)
                            ELSE cache_file
           /\ probe' = [ pc |-> "outlet", lat |-> probe.lat, lon |-> probe.lon, env |-> probe.env,
                         checked |-> probe.checked, detailed |-> TRUE, detail |-> outcome ]
                           @@ probe
    /\ UNCHANGED << mainVars, req >>

NextDetail ==
    \/ CheckNearby
    \/ DetailCulinary

SpecDetail ==
    InitDetail /\ [][NextDetail]_vars

\* ---------------------------------------------------------------------------
\* The insertions into the cache by the workers of a process, each outlet at a
\* coordinate of its own
\* ---------------------------------------------------------------------------

\* most coordinates the process classifies
MaxKeys ==
    12

\* a process that has imported api_handler with no cache file on disk; probe.next
\* numbers the coordinate the next classification is for
InitInsert ==
    /\ IdleMain
    /\ req = Idle
    /\ cache_file = NoFile
    /\ api_cache = load_cache(cache_file, << >>)
    /\ probe = [ pc |-> "insert", next |-> 1,
                 worker |-> [ w \in 1..MaxWorkers |-> "idle" ] ]

\* api_handler.py:381-383: a worker stores the classification it has computed
InsertEntry(w) ==
    /\ probe.pc = "insert"
    /\ probe.worker[w] = "idle"
    /\ probe.next <= MaxKeys
    /\ LET key == cache_key(probe.next, 0, DEFAULT_RADIUS)
       IN  IF ENABLE_CACHE
           THEN api_cache' = [ k \in DOMAIN api_cache \cup { key } |->
                                 IF k = key THEN AllFalse ELSE api_cache[k] ]
           ELSE UNCHANGED api_cache
    /\ probe' = [ probe EXCEPT !.next = @ + 1, !.worker[w] = "stored" ]
    /\ UNCHANGED << mainVars, cache_file, req >>

\* api_handler.py:384-388: the same worker looks at the size of the cache and
\* saves it when the size is a multiple of ten
PeriodicSave(w) ==
    /\ probe.pc = "insert"
    /\ probe.worker[w] = "stored"
    /\ IF ENABLE_CACHE /\ Cardinality(DOMAIN api_cache) % SAVE_EVERY = 0
       THEN cache_file' = save_cache(cache_file, api_cache)
       ELSE UNCHANGED cache_file
    /\ probe' = [ probe EXCEPT !.worker[w] = "idle" ]
    /\ UNCHANGED << mainVars, api_cache, req >>

\* facility_analyzer.py:144-147: the workers of the last batch have finished and
\* batch_process_outlets saves the cache before it returns
ReturnSave ==
    /\ probe.pc = "insert"
    /\ \A w \in 1..MaxWorkers : probe.worker[w] = "idle"
    /\ cache_file' = save_cache(cache_file, api_cache)
    /\ probe' = [ probe EXCEPT !.pc = "returned" ]
    /\ UNCHANGED << mainVars, api_cache, req >>

\* facility_analyzer.py:222: batch_process_outlets is called again, for the
\* outlets without facilities
NextCall ==
    /\ probe.pc = "returned"
    /\ probe' = [ probe EXCEPT !.pc = "insert" ]
    /\ UNCHANGED << mainVars, cacheVars, req >>

NextInsert ==
    \/ \E w \in 1..MaxWorkers : InsertEntry(w)
    \/ \E w \in 1..MaxWorkers : PeriodicSave(w)
    \/ ReturnSave
    \/ NextCall

SpecInsert ==
    InitInsert /\ [][NextInsert]_vars

\* ---------------------------------------------------------------------------
\* check_nearby_facilities_simple with either value of USE_SIMPLIFIED_QUERIES
\* ---------------------------------------------------------------------------

\* what the endpoints may do when asked the combined query
CombinedAnswers ==
    { Down,
      << Ok(PyNone), Status503, Status503 >>,
      << Ok(PyDict(<< >>)), Status503, Status503 >>,
      << Ok(PyDict(<< Road, Restaurant >>)), Status503, Status503 >>,
      << OkGarbage, TransportError, Ok(PyDict(<< Supermarket, Road >>)) >>,
      << Status503, Ok(PyList), Status503 >> }

\* api_handler.py:321-337: every element of the answer is analysed and the flags
\* are merged
merge_elements(elements) ==
    [ c \in CategorySet |-> AnyElementInCategory(elements, c) ]

\* the categories asked by the per-category loop until it ends or raises
RECURSIVE categories_asked(_, _)
categories_asked(i, env) ==
    IF i > Len(Categories) THEN << >>
    ELSE LET data == call_overpass_api(env[Categories[i]]).data
         IN  IF IsTruthy(data) /\ data.type # "dict" THEN << Categories[i] >>
             ELSE << Categories[i] >> \o categories_asked(i + 1, env)

\* api_handler.py:278-290: the function has been called for the place (1.0, 2.0)
InitCombined ==
    /\ IdleMain
    /\ req = Idle
    /\ cache_file = NoFile
    /\ api_cache \in EarlierCaches \cup { AlmostFull }
    /\ \E simplified \in BOOLEAN, combined \in CombinedAnswers, env \in ServiceAnswers :
        probe = [ pc |-> "called", simplified |-> simplified, combined |-> combined,
                  env |-> env, requests |-> << >>, returned |-> NoResult,
                  before |-> api_cache ]

\* api_handler.py:290-313: the look into the cache and the choice of the path
CacheLookup ==
    /\ probe.pc = "called"
    /\ LET key == cache_key(1000, 2000, DEFAULT_RADIUS)
       IN  IF ENABLE_CACHE /\ key \in DOMAIN api_cache
           THEN probe' = [ probe EXCEPT !.pc = "returned", !.returned = api_cache[key] ]
           ELSE probe' = [ probe EXCEPT !.pc = IF probe.simplified THEN "per_category"
                                               ELSE "combined" ]
    /\ UNCHANGED << mainVars, cacheVars, req >>

\* api_handler.py:381-388 and 345-351: the store and the periodic save
StoreAndSave(key, value) ==
    IF ENABLE_CACHE
    THEN LET stored == [ k \in DOMAIN api_cache \cup { key } |->
                           IF k = key THEN value ELSE api_cache[k] ]
         IN  /\ api_cache' = stored
             /\ IF Cardinality(DOMAIN stored) % SAVE_EVERY = 0
                THEN cache_file' = save_cache(cache_file, stored)
                ELSE UNCHANGED cache_file
    ELSE UNCHANGED cacheVars

\* a combined query whose answer is never used
CombinedQuery_unused ==
    /\ probe.pc = "combined"
    /\ probe' = [ probe EXCEPT !.requests = Append(@, "all_categories"),
                               !.pc = "per_category" ]
    /\ UNCHANGED << mainVars, cacheVars, req >>

\* api_handler.py:313-353: the combined query and, when it has an answer, the
\* analysis of its elements, the store and the return
CombinedQuery ==
    /\ probe.pc = "combined"
    /\ LET data == call_overpass_api(probe.combined).data
           asked == [ probe EXCEPT !.requests = Append(@, "all_categories") ]
       IN  IF IsTruthy(data)
           THEN IF data.type # "dict"
                THEN /\ probe' = [ asked EXCEPT !.pc = "raised" ]
                     /\ UNCHANGED cacheVars
                ELSE /\ probe' = [ asked EXCEPT !.pc = "returned",
                                                !.returned = merge_elements(data.elements) ]
                     /\ StoreAndSave(cache_key(1000, 2000, DEFAULT_RADIUS),
                                     merge_elements(data.elements))
           ELSE /\ probe' = [ asked EXCEPT !.pc = "per_category" ]
                /\ UNCHANGED cacheVars
    /\ UNCHANGED << mainVars, req >>

\* api_handler.py:355-388: the loop over the categories, the store and the return
PerCategoryQueries ==
    /\ probe.pc = "per_category"
    /\ LET outcome == per_category_loop(1, AllFalse, probe.env)
           asked == [ probe EXCEPT !.requests = @ \o categories_asked(1, probe.env) ]
       IN  IF outcome.raised # None
           THEN /\ probe' = [ asked EXCEPT !.pc = "raised" ]
                /\ UNCHANGED cacheVars
           ELSE /\ probe' = [ asked EXCEPT !.pc = "returned", !.returned = outcome.results ]
                /\ StoreAndSave(cache_key(1000, 2000, DEFAULT_RADIUS), outcome.results)
    /\ UNCHANGED << mainVars, req >>

NextCombined ==
    \/ CacheLookup
    \/ CombinedQuery
    \/ PerCategoryQueries

SpecCombined ==
    InitCombined /\ [][NextCombined]_vars

\* ---------------------------------------------------------------------------
\* increase_detection_radius on the results of an analysis
\* ---------------------------------------------------------------------------

\* "2, 1", a third place
K4 ==
    << "2", ",", "1" >>

\* result lists an analysis at the default radius may end with
AnalysedResults ==
    { << result_record(Outlet("A", K1), 1000, 2000, CulinaryOnly),
         result_record(Outlet("B", K2), 1000, 2000, CulinaryOnly) >>,
      << result_record(Outlet("A", K1), 1000, 2000, CulinaryOnly),
         result_record(Outlet("B", K3), 3000, 1000, AllFalse) >>,
      << result_record(Outlet("B", K3), 3000, 1000, AllFalse),
         result_record(Outlet("A", K1), 1000, 2000, CulinaryOnly),
         failure_record(Outlet("C", K4)) >>,
      << result_record(Outlet("A", K1), 1000, 2000, AllFalse),
         result_record(Outlet("C", K4), 2000, 1000, classify(SupermarketFailover).results),
         result_record(Outlet("B", K3), 3000, 1000, AllFalse),
         result_record(Outlet("D", K2), 1000, 2000, AllFalse) >> }

\* the cache these analyses leave: the flags of every place that was classified
CacheAfter(result_list) ==
    LET classified == { i \in DOMAIN result_list : "Error" \notin DOMAIN result_list[i] }
    IN  [ key \in { cache_key(result_list[i]["Latitude"], result_list[i]["Longitude"],
                              DEFAULT_RADIUS) : i \in classified } |->
            LET i == CHOOSE i \in classified :
                        key = cache_key(result_list[i]["Latitude"],
                                        result_list[i]["Longitude"], DEFAULT_RADIUS)
            IN  [ c \in CategorySet |->
                    result_list[i][Columns[CHOOSE n \in DOMAIN Categories : Categories[n] = c]] ] ]

\* main.py:151-153: the analysis has returned its results
InitEscalate ==
    /\ results \in AnalysedResults
    /\ outlets = [ i \in DOMAIN results |->
                     Outlet(results[i]["Nama Outlet"], results[i]["Koordinat"]) ]
    /\ progress_file = json_dump(results)
    /\ api_cache = CacheAfter(results)
    /\ cache_file = save_cache(NoFile, api_cache)
    /\ pc = "analysed"
    /\ existing_results = << >>
    /\ call = NoCall
    /\ tasks = << >>
    /\ idr = NoIdr
    /\ returned_true = {}
    /\ req = Idle
    /\ probe = Idle

NextEscalate ==
    \/ AfterAnalysis
    \/ NextBatch
    \/ Return
    \/ Finish

SpecEscalate ==
    InitEscalate /\ [][NextEscalate]_vars

\* ---------------------------------------------------------------------------
\* get_nearby_places_detail for every category
\* ---------------------------------------------------------------------------

Estate ==
    [ tags |-> [ landuse |-> "residential" ] ]

College ==
    [ tags |-> [ amenity |-> "college" ] ]

School ==
    [ tags |-> [ amenity |-> "school", building |-> "school" ] ]

Bar ==
    [ tags |-> [ amenity |-> "bar" ] ]

Office ==
    [ tags |-> [ building |-> "commercial" ] ]

Deli ==
    [ tags |-> [ shop |-> "deli" ] ]

Works ==
    [ tags |-> [ man_made |-> "works" ] ]

Vet ==
    [ tags |-> [ amenity |-> "veterinary" ] ]

Shop ==
    [ tags |-> [ name |-> "Toko Sumber" ] ]

\* features of every category, with and without a subtype
LabelFeatures ==
    Features \cup { Estate, College, School, Bar, Office, Deli, Works, Vet, Shop }

\* api_handler.py:599-611: the function has been called with a category for a
\* place whose detail is not in the cache
InitLabel ==
    /\ IdleMain
    /\ req = Idle
    /\ cache_file = NoFile
    /\ api_cache = << >>
    /\ \E category \in CategorySet,
          elements \in UNION { [ 1..n -> LabelFeatures ] : n \in 1..MaxFeatures } :
        probe = [ pc |-> "called", category |-> category, elements |-> elements ]

\* api_handler.py:611-841: the query, the labelling of the elements of the
\* category, the store and the return
DetailQuery ==
    /\ probe.pc = "called"
    /\ LET key == detail_key(0 - 6200, 106800, probe.category, DEFAULT_RADIUS)
           outcome == get_nearby_places_detail(
                          << Status503, Ok(PyDict(probe.elements)), Status503 >>, probe.category)
       IN  /\ probe' = [ pc |-> "returned", category |-> probe.category,
                         elements |-> probe.elements, places |-> outcome.places ]
           /\ IF ENABLE_CACHE
              THEN /\ api_cache' = (key :> outcome.places) @@ api_cache
                   /\ cache_file' = IF Cardinality(DOMAIN api_cache') % SAVE_EVERY = 0
                                    THEN save_cache(cache_file, api_cache')
                                    ELSE cache_file
              ELSE UNCHANGED cacheVars
    /\ UNCHANGED << mainVars, req >>

\* the caller reads the labels and the process goes on to the next place
NextLabel ==
    DetailQuery

SpecLabel ==
    InitLabel /\ [][NextLabel]_vars

\* ---------------------------------------------------------------------------
\* IndomaretHandler.generate_indomaret_report
\* ---------------------------------------------------------------------------

\* most outlets of a list handed to the report
MaxReportOutlets ==
    4

\* an enriched outlet record as far as the report reads it; the outlet of area
\* "Unknown" has no 'Kecamatan' key
EnrichedOutlet(kecamatan, indomaret_count) ==
    IF kecamatan = "Unknown"
    THEN ("Indomaret_Count" :> indomaret_count) @@ ("Has_Indomaret" :> (indomaret_count > 0))
    ELSE ("Kecamatan" :> kecamatan) @@ ("Indomaret_Count" :> indomaret_count)
             @@ ("Has_Indomaret" :> (indomaret_count > 0))

\* the lists of outlets a report is asked for
ReportInputs ==
    UNION { [ 1..n -> { EnrichedOutlet(kecamatan, indomaret_count) :
                          kecamatan \in { "MENTENG", "GAMBIR", "SENEN", "Unknown" },
                          indomaret_count \in { 0, 2, 4 } } ] :
            n \in 0..MaxReportOutlets }

\* indomaret_handler.py:524-536, the keys of kecamatan_distribution in the order
\* in which the loop inserts them
RECURSIVE kecamatan_keys(_)
kecamatan_keys(outlet_results) ==
    IF outlet_results = << >> THEN << >>
    ELSE LET front == kecamatan_keys(SubSeq(outlet_results, 1, Len(outlet_results) - 1))
             kecamatan == DictGet(outlet_results[Len(outlet_results)], "Kecamatan", "Unknown")
         IN  IF kecamatan \in Range(front) THEN front ELSE Append(front, kecamatan)

\* sum(...) of a list of numbers
RECURSIVE sum(_)
sum(numbers) ==
    IF numbers = << >> THEN 0 ELSE Head(numbers) + sum(Tail(numbers))

\* sum(f(outlet) for outlet in outlet_results)
sum_over(outlet_results, f(_)) ==
    sum([ i \in DOMAIN outlet_results |-> f(outlet_results[i]) ])

\* indomaret_handler.py:523-536, the entry of one kecamatan
kecamatan_entry(outlet_results, kecamatan) ==
    LET here == SelectSeq(outlet_results,
                          LAMBDA outlet : DictGet(outlet, "Kecamatan", "Unknown") = kecamatan)
    IN  [ outlets |-> Len(here),
          indomaret_stores |-> sum_over(here, LAMBDA outlet : DictGet(outlet, "Indomaret_Count", 0)),
          outlets_with_indomaret |->
              sum_over(here, LAMBDA outlet : IF DictGet(outlet, "Has_Indomaret", FALSE) THEN 1 ELSE 0) ]

\* sorted(items, key=indomaret_stores, reverse=True): a stable sort, descending
RECURSIVE sorted_by_stores(_, _)
sorted_by_stores(keys, distribution) ==
    IF keys = << >> THEN << >>
    ELSE LET last == keys[Len(keys)]
             front == sorted_by_stores(SubSeq(keys, 1, Len(keys) - 1), distribution)
         IN  SelectSeq(front, LAMBDA k : distribution[k].indomaret_stores
                                            >= distribution[last].indomaret_stores)
                 \o << last >>
                 \o SelectSeq(front, LAMBDA k : distribution[k].indomaret_stores
                                                  < distribution[last].indomaret_stores)

\* names[:n]
FirstOf(names, n) ==
    SubSeq(names, 1, Min(n, Len(names)))

\* a competition level taken from the number of stores of the areas
competition_level_by_stores(keys, distribution, outlets_with_indomaret, total_outlets) ==
    IF \E i \in DOMAIN keys : distribution[keys[i]].indomaret_stores > 3 THEN "TINGGI"
    ELSE IF \E i \in DOMAIN keys : distribution[keys[i]].indomaret_stores > 0 THEN "SEDANG"
    ELSE "RENDAH"

\* indomaret_handler.py:581-585: the quotient of two small integers is compared
\* with 0.7 and 0.4, which is the comparison of the products
competition_level(keys, distribution, outlets_with_indomaret, total_outlets) ==
    IF 10 * outlets_with_indomaret > 7 * total_outlets THEN "TINGGI"
    ELSE IF 10 * outlets_with_indomaret > 4 * total_outlets THEN "SEDANG"
    ELSE "RENDAH"

\* indomaret_handler.py:567-609; a text is given by the values formatted into it
generate_insights(keys, distribution, outlets_with_indomaret, total_outlets) ==
    LET kecamatan_without_indomaret ==
            SelectSeq(keys, LAMBDA k : distribution[k].indomaret_stores = 0
                                       /\ distribution[k].outlets > 0)
        high_competition_areas ==
            SelectSeq(keys, LAMBDA k : distribution[k].indomaret_stores > 3)
    IN  [ competition_analysis |->
              [ competition_level |-> competition_level(keys, distribution,
                                                        outlets_with_indomaret, total_outlets),
                outlets_with_indomaret |-> outlets_with_indomaret,
                total_outlets |-> total_outlets ],
          market_opportunity |->
              IF kecamatan_without_indomaret # << >>
              THEN [ text |-> "Peluang pasar",
                     number |-> Len(kecamatan_without_indomaret),
                     named |-> FirstOf(kecamatan_without_indomaret, 3),
                     ellipsis |-> Len(kecamatan_without_indomaret) > 3 ]
              ELSE [ text |-> "Semua kecamatan dengan outlet sudah memiliki Indomaret" ],
          strategic_recommendation |->
              IF high_competition_areas # << >>
              THEN [ text |-> "Fokus diferensiasi produk",
                     number |-> Len(high_competition_areas),
                     named |-> FirstOf(high_competition_areas, 2),
                     ellipsis |-> Len(high_competition_areas) > 2 ]
              ELSE [ text |-> "Peluang ekspansi masih terbuka" ] ]

\* indomaret_handler.py:501-565; the empty dictionary is the empty function
generate_indomaret_report(outlet_results) ==
    IF outlet_results = << >> THEN << >>
    ELSE LET total_outlets == Len(outlet_results)
             outlets_with_indomaret ==
                 sum_over(outlet_results,
                          LAMBDA outlet : IF DictGet(outlet, "Has_Indomaret", FALSE) THEN 1 ELSE 0)
             keys == kecamatan_keys(outlet_results)
             kecamatan_distribution ==
                 [ k \in Range(keys) |-> kecamatan_entry(outlet_results, k) ]
         IN  [ summary |->
                   [ total_outlets |-> total_outlets,
                     outlets_with_indomaret |-> outlets_with_indomaret,
                     outlets_without_indomaret |-> total_outlets - outlets_with_indomaret,
                     percentage_with_indomaret |->
                         [ numerator |-> outlets_with_indomaret * 100,
                           denominator |-> total_outlets ],
                     total_indomaret_in_outlet_areas |->
                         sum_over(outlet_results,
                                  LAMBDA outlet : DictGet(outlet, "Indomaret_Count", 0)) ],
               kecamatan_distribution |-> kecamatan_distribution,
               kecamatan_order |-> keys,
               top_indomaret_kecamatan |->
                   FirstOf(sorted_by_stores(keys, kecamatan_distribution), 5),
               kecamatan_without_indomaret |->
                   SelectSeq(keys, LAMBDA k : kecamatan_distribution[k].indomaret_stores = 0),
               insights |-> generate_insights(keys, kecamatan_distribution,
                                              outlets_with_indomaret, total_outlets) ]

\* main.py:166-184: the enriched results are at hand
InitReport ==
    /\ IdleMain
    /\ req = Idle
    /\ cache_file = NoFile
    /\ api_cache = << >>
    /\ \E outlet_results \in ReportInputs :
        probe = [ pc |-> "enhanced", outlet_results |-> outlet_results ]

\* main.py:184, indomaret_handler.generate_indomaret_report(results)
GenerateReport ==
    /\ probe.pc = "enhanced"
    /\ probe' = [ pc |-> "reported", outlet_results |-> probe.outlet_results,
                  report |-> generate_indomaret_report(probe.outlet_results) ]
    /\ UNCHANGED << mainVars, cacheVars, req >>

NextReport ==
    GenerateReport

SpecReport ==
    InitReport /\ [][NextReport]_vars

\* ---------------------------------------------------------------------------
\* A run that resumes the checkpoint of an earlier run
\* ---------------------------------------------------------------------------

\* main.py:64-88: an earlier run has left its checkpoint behind
InitRestart ==
    /\ Init
    /\ progress_file # NoFile

\* main.py:88-136, the start of the run when the user answers 'y' to the
\* question whether to go on from the checkpoint
MainResume ==
    /\ MainStart
    /\ existing_results' # << >>

NextRestart ==
    \/ MainResume
    \/ BatchLoop
    \/ \E j \in DOMAIN tasks : Dispatch(j)
    \/ \E j \in DOMAIN tasks : Attempt(j)
    \/ \E j \in DOMAIN tasks : Store(j)
    \/ \E j \in DOMAIN tasks : Periodic(j)
    \/ \E j \in DOMAIN tasks : Collect(j)
    \/ Checkpoint
    \/ SaveCacheAtEnd
    \/ Return
    \/ AfterAnalysis
    \/ Finish

SpecRestart ==
    InitRestart /\ [][NextRestart]_vars

\* ---------------------------------------------------------------------------
\* Properties
\* ---------------------------------------------------------------------------

Parseable(outlet) ==
    parse_coordinates(outlet.koordinat).raised = None

CountOutlets(outlet_list, nama) ==
    Cardinality({ i \in DOMAIN outlet_list : outlet_list[i].nama = nama })

CountParseable(outlet_list, nama) ==
    Cardinality({ i \in DOMAIN outlet_list :
                    outlet_list[i].nama = nama /\ Parseable(outlet_list[i]) })

CountRecords(result_list, nama) ==
    Cardinality({ i \in DOMAIN result_list : result_list[i]["Nama Outlet"] = nama })

NamesOf(outlet_list) ==
    { outlet_list[i].nama : i \in DOMAIN outlet_list }

HasError(result) ==
    "Error" \in DOMAIN result /\ result["Error"] # ""

\* C1: when every request of the query client fails, an outlet with a parseable
\* coordinate is attempted exactly 2 times and gets a record with all nine flags
\* false and a non-empty 'Error' field.
C1_RetryBound ==
    \A j \in DOMAIN tasks :
        ( /\ tasks[j].state = "done"
          /\ Parseable(tasks[j].outlet)
          /\ tasks[j].queries >= 1
          /\ tasks[j].requests_failed )
        => /\ tasks[j].attempts = 2
           /\ HasResult(tasks[j].result)
           /\ WithoutFacilities(tasks[j].result)
           /\ HasError(tasks[j].result)

\* C2 as stated: when batch_process_outlets returns, the returned list holds
\* exactly one record per input outlet, matched by name, so the output count
\* equals the input count.
C2_OneRecordPerOutlet ==
    pc = "bpo_return" =>
        /\ Len(call.all_results) = Len(call.outlets)
        /\ \A nama \in NamesOf(call.outlets) :
            CountRecords(call.all_results, nama) = CountOutlets(call.outlets, nama)

\* C2 amended: when batch_process_outlets returns, the returned list holds exactly
\* one record per input outlet whose coordinate string can be parsed, the outlets
\* whose every attempt failed included, and no record for an outlet whose
\* coordinate string cannot be parsed.
C2_OneRecordPerParseableOutlet ==
    pc = "bpo_return" =>
        /\ \A i \in DOMAIN call.all_results : HasResult(call.all_results[i])
        /\ \A i \in DOMAIN call.all_results :
            call.all_results[i]["Nama Outlet"] \in NamesOf(call.outlets)
        /\ \A nama \in NamesOf(call.outlets) :
            CountRecords(call.all_results, nama) = CountParseable(call.outlets, nama)

\* a call returns the record of an outlet whose every attempt failed and has left
\* out an outlet whose coordinate cannot be parsed
C2_Witness ==
    /\ pc = "bpo_return"
    /\ \E i \in DOMAIN call.all_results : HasError(call.all_results[i])
    /\ \E i \in DOMAIN call.outlets : ~ Parseable(call.outlets[i])
    /\ Len(call.all_results) = Len(call.outlets) - 1

\* C3: after increase_detection_radius the list has the same length and every
\* index holds a record of the same outlet as before the call.
C3_IndicesKeepTheirOutlet ==
    pc = "escalated" =>
        /\ Len(results) = Len(idr.before)
        /\ \A i \in DOMAIN results :
            results[i]["Nama Outlet"] = idr.before[i]["Nama Outlet"]

CheckpointedNames(file) ==
    IF file.exists THEN processed_names(file.records) ELSE {}

\* C4: in a resumed run and in a radius-escalation pass every outlet name
\* recorded in the checkpoint file stays recorded after every later write.
C4_CheckpointKeepsNames ==
    [][ call.caller \in { "resume", "increase_detection_radius" }
          => CheckpointedNames(progress_file) \subseteq CheckpointedNames(progress_file') ]_vars

\* the positions of the outlets that are not in the checkpoint
Unprocessed(all_outlets, existing) ==
    { i \in DOMAIN all_outlets : all_outlets[i].nama \notin processed_names(existing) }

\* the k-th smallest element of a set of positions
KthOf(positions, k) ==
    CHOOSE i \in positions : Cardinality({ j \in positions : j <= i }) = k

\* C5: get_remaining_outlets returns exactly the outlets whose name is absent from
\* the checkpoint, each once and in their original relative order: N - M outlets
\* for N unique names and M processed names, and the whole list for an empty
\* checkpoint.
C5_RemainingOutlets ==
    probe.pc = "applied" =>
        LET todo == Unprocessed(probe.outlets, probe.existing)
        IN  /\ Len(probe.remaining) = Cardinality(todo)
            /\ \A k \in DOMAIN probe.remaining :
                probe.remaining[k] = probe.outlets[KthOf(todo, k)]
            /\ Cardinality(NamesOf(probe.outlets)) = Len(probe.outlets)
                => Len(probe.remaining) =
                     Len(probe.outlets) - Cardinality(processed_names(probe.existing))
            /\ probe.existing = << >> => probe.remaining = probe.outlets

\* a checkpoint with one of three names leaves the two other outlets, the
\* processed one being in the middle of the list
C5_Witness ==
    /\ probe.pc = "applied"
    /\ Len(probe.outlets) = 3
    /\ Cardinality(NamesOf(probe.outlets)) = 3
    /\ processed_names(probe.existing) = { probe.outlets[2].nama }
    /\ Len(probe.remaining) = 2

RECURSIVE Flatten(_)
Flatten(lists) ==
    IF lists = << >> THEN << >> ELSE Head(lists) \o Flatten(Tail(lists))

\* C6: during one call of batch_process_outlets, after batch k the checkpoint file
\* holds exactly the result records of batches 1..k of that call.
C6_CheckpointHoldsBatches ==
    ( pc \in { "bpo_loop", "bpo_collect", "bpo_save", "bpo_return" } /\ call.i >= 1 ) =>
        /\ Len(call.history) = call.i
        /\ progress_file.exists
        /\ progress_file.records = Flatten(call.history)
        /\ \A k \in DOMAIN call.history :
            /\ \A r \in Range(call.history[k]) :
                \E o \in Range(batch_of(call.outlets, k - 1)) :
                    r["Nama Outlet"] = o.nama /\ r["Koordinat"] = o.koordinat
            /\ \A nama \in NamesOf(batch_of(call.outlets, k - 1)) :
                CountRecords(call.history[k], nama) =
                    CountParseable(batch_of(call.outlets, k - 1), nama)

\* the second batch of a call is over and both batches produced records
C6_Witness ==
    /\ pc = "bpo_loop"
    /\ call.i = 2
    /\ call.history[1] # << >>
    /\ call.history[2] # << >>
    /\ progress_file.records = call.history[1] \o call.history[2]

\* C7: a classification whose queries all failed at every endpoint stores nothing
\* in the cache.
C7_NoEntryWithoutData ==
    [][ \A j \in DOMAIN tasks :
          ( /\ tasks[j].state = "store"
            /\ ~ tasks[j].got_data
            /\ j \in DOMAIN tasks'
            /\ tasks'[j].state = "periodic" )
          => api_cache' = api_cache ]_vars

\* C8: once a call has returned a category flag true for a key, every call for
\* the same key that starts later returns that flag true.
C8_TrueStaysTrue ==
    \A j \in DOMAIN tasks :
        tasks[j].returned => \A c \in tasks[j].prior_true : tasks[j].facilities[c]

Answered200(r) ==
    r.raised = None /\ r.status = 200

\* the answer is a 200 whose body decodes as JSON
Usable(r) ==
    Answered200(r) /\ r.decodable

\* C10 as stated: call_overpass_api contacts the endpoints in priority order, goes
\* on to the next only after a non-200 status or an exception, returns the body of
\* the first endpoint that answers 200 without contacting a later one, and
\* returns None exactly when no endpoint answered 200.
C10_FirstOkWins ==
    req.pc = "returned" =>
        LET n == Len(req.contacted)
        IN  /\ \A k \in 1..n : req.contacted[k] = k
            /\ \A k \in 1..(n - 1) : ~ Answered200(req.responses[k])
            /\ (req.returned = PyNone)
                 <=> (\A k \in EndpointIndex : ~ Answered200(req.responses[k]))
            /\ \A k \in EndpointIndex :
                ( Answered200(req.responses[k])
                  /\ \A i \in 1..(k - 1) : ~ Answered200(req.responses[i]) )
                => n = k

\* C10 amended: call_overpass_api never raises; it contacts the endpoints one at a
\* time in priority order, goes on to the next only after a non-200 status, an
\* exception or a 200 answer whose body is not JSON, returns the decoded body of
\* the first endpoint that answers 200 with a JSON body without contacting a later
\* one, and returns None exactly when no endpoint gave such an answer or the
\* first such body is the JSON null. The value returned and the number of
\* endpoints contacted are those call_overpass_api computes for the same answers.
C10_FirstUsableWins ==
    /\ req.pc \in { "idle", "loop", "returned" }
    /\ req.pc = "returned" =>
        LET n == Len(req.contacted)
        IN  /\ \A k \in 1..n : req.contacted[k] = k
            /\ \A k \in 1..(n - 1) : ~ Usable(req.responses[k])
            /\ IF \E k \in EndpointIndex : Usable(req.responses[k])
               THEN /\ Usable(req.responses[n])
                    /\ req.returned = req.responses[n].value
               ELSE /\ n = Len(OVERPASS_ENDPOINTS)
                    /\ req.returned = PyNone
            /\ req.returned = call_overpass_api(req.responses).data
            /\ n = call_overpass_api(req.responses).contacted

\* the first endpoint answers 200 with a body that is not JSON, the second is
\* down and the third delivers the body that is returned
C10_Witness ==
    /\ req.pc = "returned"
    /\ req.responses[1] = OkGarbage
    /\ EndpointFailed(req.responses[2])
    /\ Len(req.contacted) = 3
    /\ req.returned = PyDict(<< Restaurant >>)


\* the batches of the call are all done
AllBatchesDone ==
    call.i = num_batches(Len(call.outlets))

\* the main thread is at a statement it can execute, or waits for futures of
\* which one is running, is finished, or can be given to a free worker
HasStepToTake ==
    \/ pc \in { "import", "bpo_loop", "bpo_save" }
    \/ /\ pc = "bpo_collect"
       /\ \/ \A j \in DOMAIN tasks : tasks[j].state = "collected"
          \/ \E j \in DOMAIN tasks : tasks[j].state \in { "attempt", "store", "periodic", "done" }
          \/ /\ \E j \in DOMAIN tasks : tasks[j].state = "pending"
             /\ Cardinality(Running) < call.max_workers

\* C11: a disk failure never aborts a run. An unreadable cache file leaves the
\* process with an empty cache; a failed write of the cache file or of the
\* checkpoint file changes neither the in-memory cache nor the accumulated result
\* list (which grows by the records of the batch just collected, as after a write
\* that succeeds); no exception leaves the call, before the return the main
\* thread or a worker always has a step to take, and the call returns after all
\* its batches with one record per outlet that can be processed.
C11_DiskFailureNeverAborts ==
    /\ [][ /\ ( pc = "import" /\ pc' # "import" /\ ~ Readable(cache_file) )
                => api_cache' = << >>
           /\ probe'.failed_writes # probe.failed_writes
                => /\ api_cache' = api_cache
                   /\ call'.all_results =
                        IF call'.i = call.i THEN call.all_results
                        ELSE call.all_results \o call.batch_results ]_vars
    /\ [](pc \in { "import", "bpo_loop", "bpo_collect", "bpo_save", "bpo_return" })
    /\ [](pc # "bpo_return" => HasStepToTake)
    /\ [](pc = "bpo_return" =>
            /\ AllBatchesDone
            /\ \A nama \in NamesOf(call.outlets) :
                CountRecords(call.all_results, nama) = CountParseable(call.outlets, nama))

\* a call has returned although the cache file could not be read and a write of
\* the checkpoint and a write of the cache failed, the checkpoint being unreadable
C11_Witness ==
    /\ pc = "bpo_return"
    /\ probe.pc = "disk"
    /\ probe.read_failed
    /\ probe.failed_writes >= 2
    /\ progress_file = Unreadable
    /\ Len(call.all_results) >= 2

\* the stores of the handler a query has to return: numeric coordinates, at most
\* radius_km away
InRadius(store, outlet_lat, outlet_lon, radius_km) ==
    /\ { "Latitude", "Longitude" } \subseteq DOMAIN store
    /\ store["Latitude"] # PyNone /\ store["Longitude"] # PyNone
    /\ IsCoordinate(store["Latitude"]) /\ IsCoordinate(store["Longitude"])
    /\ geodesic(<< outlet_lat, outlet_lon >>,
                << as_float(store["Latitude"]), as_float(store["Longitude"]) >>) <= radius_km

\* C12: get_indomaret_by_radius returns, in ascending order of distance, exactly
\* the stores with numeric coordinates at most radius_km away, as often as the
\* handler holds them; the store 0.4 km away comes with distance 0.4 for 0.5 km
\* and is left out for 0.3 km
C12_NearbyStoresWithinRadius ==
    probe.pc = "nearby" =>
        LET returned == probe.returned
            held == probe.indomaret_data
            Plain(s) == WithoutField(s, "Distance_KM")
        IN  /\ \A i \in DOMAIN returned :
                /\ \E k \in DOMAIN held : held[k] = Plain(returned[i])
                /\ InRadius(Plain(returned[i]), probe.outlet_lat, probe.outlet_lon, probe.radius_km)
            /\ \A store \in Range(held) :
                Cardinality({ i \in DOMAIN returned : Plain(returned[i]) = store })
                    = IF InRadius(store, probe.outlet_lat, probe.outlet_lon, probe.radius_km)
                      THEN Cardinality({ k \in DOMAIN held : held[k] = store })
                      ELSE 0
            /\ \A i, j \in DOMAIN returned :
                i < j => returned[i]["Distance_KM"] <= returned[j]["Distance_KM"]
            /\ probe.outlet_lat = 1110 =>
                \A i \in DOMAIN returned :
                    returned[i]["Store"] = "0.4 km"
                        => probe.radius_km = 5000 /\ returned[i]["Distance_KM"] = 400

\* a query for 0.5 km that skipped a store without a number and returned the
\* store 0.4 km away behind a nearer one the document lists later
C12_Witness ==
    /\ probe.pc = "nearby"
    /\ probe.radius_km = 5000 /\ probe.outlet_lat = 1110
    /\ Len(probe.indomaret_data) = 3
    /\ probe.indomaret_data[1]["Store"] = "0.4 km"
    /\ probe.indomaret_data[2]["Store"] = "text"
    /\ probe.indomaret_data[3]["Store"] = "0.2 km"
    /\ Len(probe.returned) = 2
    /\ probe.returned[2]["Store"] = "0.4 km" /\ probe.returned[2]["Distance_KM"] = 400

\* what the enrichment owes its caller: a list, one record per outlet in the
\* order of the input, each the outlet with a count, a list and a flag that agree
EnhancedAsStated(outlet_results, result) ==
    /\ result.raised = None
    /\ Len(result.returned) = Len(outlet_results)
    /\ \A i \in DOMAIN result.returned :
        LET enhanced == result.returned[i]
        IN  /\ \A key \in DOMAIN outlet_results[i] :
                key \in DOMAIN enhanced /\ enhanced[key] = outlet_results[i][key]
            /\ { "Indomaret_Count", "Indomaret_Stores", "Has_Indomaret" } \subseteq DOMAIN enhanced
            /\ enhanced["Indomaret_Count"] = Len(enhanced["Indomaret_Stores"])
            /\ enhanced["Has_Indomaret"] = (enhanced["Indomaret_Count"] > 0)

\* C13: on a handler that holds stores, enhance_outlet_data_with_indomaret
\* returns one record per outlet in input order, each with a store count, a store
\* list and a flag, count = length of the list, flag = (count > 0); the outlet
\* 0.2 km from the only store gets the flag and the count 1
C13_OneEnhancedRecordPerOutlet ==
    (probe.pc = "enhance" /\ probe.indomaret_data # << >>) =>
        /\ EnhancedAsStated(probe.outlet_results, probe.result)
        /\ ( /\ Len(probe.indomaret_data) = 1
             /\ probe.indomaret_data[1]["Store"] = "0.2 km"
             /\ Len(probe.outlet_results) = 1 )
               => /\ probe.result.returned[1]["Has_Indomaret"]
                  /\ probe.result.returned[1]["Indomaret_Count"] = 1

\* C14: when a record of the document lacks a required field, the load returns
\* False and the handler holds no store afterwards: a query returns nothing and
\* the enrichment hands the outlets back as they came
C14_MissingFieldFailsLoad ==
    ( /\ probe.pc # "file"
      /\ Readable(probe.file)
      /\ \E k \in DOMAIN probe.file.document :
            \E i \in DOMAIN required_fields :
                required_fields[i] \notin DOMAIN probe.file.document[k] )
        => /\ ~ probe.loaded
           /\ probe.indomaret_data = << >>
           /\ probe.pc = "nearby" => probe.returned = << >>
           /\ probe.pc = "enhance"
                => probe.result = [ raised |-> None, returned |-> probe.outlet_results ]

\* C15: for a non-empty result list the summary's max_facilities is the largest
\* number of true flags of an outlet, best_outlets the names of exactly the
\* outlets that reach it, ties included, in input order, and every category's
\* count the number of outlets with that flag, between 0 and total_outlets
C15_SummaryMaximumAndCounts ==
    (probe.pc = "summary" /\ probe.results # << >>) =>
        LET result_list == probe.results
            summary == probe.summary
            reaching == SelectSeq(result_list, LAMBDA r : \A i \in DOMAIN result_list :
                                      facility_count(r) >= facility_count(result_list[i]))
        IN  /\ summary.total_outlets = Len(result_list)
            /\ \E i \in DOMAIN result_list : summary.max_facilities = facility_count(result_list[i])
            /\ \A i \in DOMAIN result_list : summary.max_facilities >= facility_count(result_list[i])
            /\ summary.best_outlets = [ i \in DOMAIN reaching |-> reaching[i]["Nama Outlet"] ]
            /\ \A column \in ColumnSet :
                /\ summary.category_stats[column][1]
                     = Cardinality({ i \in DOMAIN result_list :
                                       column \in DOMAIN result_list[i] /\ result_list[i][column] })
                /\ summary.category_stats[column][1] \in 0..summary.total_outlets

\* a summary of three outlets, the first below the maximum the other two share
C15_Witness ==
    /\ probe.pc = "summary"
    /\ Len(probe.results) = 3
    /\ facility_count(probe.results[1]) = 1
    /\ probe.summary.max_facilities = 2
    /\ probe.summary.best_outlets = << "B", "A" >>
    /\ probe.summary.category_stats["Groceries"][1] = 2

\* a token float() accepts, free of separators
NumericToken(t) ==
    /\ t # << >>
    /\ \A i \in DOMAIN t : t[i] \notin Whitespace \cup { "," }
    /\ IsFloatLiteral(t)

\* C16: for numeric tokens a and b, parse_coordinates returns for "a b" what it
\* returns for "a, b": the pair (float(a), float(b)), whatever its size
C16_SeparatorStyleIsIrrelevant ==
    probe.pc = "parsed" =>
        \A k \in DOMAIN probe.coord_str :
            LET a == SubSeq(probe.coord_str, 1, k - 1)
                b == SubSeq(probe.coord_str, k + 1, Len(probe.coord_str))
            IN  (probe.coord_str[k] = " " /\ NumericToken(a) /\ NumericToken(b))
                    => /\ probe.result = parse_coordinates(a \o << ",", " " >> \o b)
                       /\ probe.result = parse_coordinates(a \o << "," >> \o b)
                       /\ probe.result
                            = [ raised |-> None, latitude |-> float(a), longitude |-> float(b) ]

\* "-.1 2" parsed to (-0.1, 2.0)
C16_Witness ==
    /\ probe.pc = "parsed"
    /\ probe.coord_str = << "-", ".", "1", " ", "2" >>
    /\ probe.result = [ raised |-> None, latitude |-> 0 - 100, longitude |-> 2000 ]

\* a coordinate string as the specification describes it: two numeric tokens
\* separated by one comma or by whitespace, blanks around them allowed
WellFormed(coord_str) ==
    \E p1, p2, p3, p4 \in DOMAIN coord_str :
        /\ p1 <= p2 /\ p2 < p3 /\ p3 <= p4
        /\ \A i \in 1..(p1 - 1) : coord_str[i] \in Whitespace
        /\ NumericToken(SubSeq(coord_str, p1, p2))
        /\ p2 + 1 < p3
        /\ \A i \in (p2 + 1)..(p3 - 1) : coord_str[i] \in Whitespace \cup { "," }
        /\ Cardinality({ i \in (p2 + 1)..(p3 - 1) : coord_str[i] = "," }) <= 1
        /\ NumericToken(SubSeq(coord_str, p3, p4))
        /\ \A i \in (p4 + 1)..Len(coord_str) : coord_str[i] \in Whitespace

C18_FlagsAreIndependent ==
    probe.pc = "rules" =>
        /\ \A category \in CategorySet :
            probe.result[category]
                = (category \in probe.evaluated /\ category_rule(category, probe.tags, probe.name))
        /\ probe.evaluated = CategorySet
             => probe.result = analyze_element_for_categories(probe.tags, probe.name)

\* the supermarket after its nine statements, taken in some order:
\* three flags are set
C18_Witness ==
    /\ probe.pc = "rules"
    /\ probe.tags = Supermarket.tags
    /\ probe.evaluated = CategorySet
    /\ { category \in CategorySet : probe.result[category] }
         = { "culinary", "business_center", "groceries" }

\* C19: when the only feature near the outlet is amenity=restaurant named
\* "Warung Bu Tutik", the classification returns Culinary true and the other
\* eight flags false, and the detail query for culinary lists the feature with
\* the type "Restaurant"
C19_RestaurantScenario ==
    (probe.pc = "outlet" /\ probe.env = Near(<< Restaurant >>)) =>
        /\ probe.checked
             => /\ probe.nearby.raised = None
                /\ \A category \in CategorySet :
                     probe.nearby.results[category] = (category = "culinary")
        /\ probe.detailed
             => /\ probe.detail.raised = None
                /\ Len(probe.detail.places) = 1
                /\ probe.detail.places[1].name = "Warung Bu Tutik"
                /\ probe.detail.places[1].type = "Restaurant"

\* the restaurant scenario after both calls
C19_Witness ==
    /\ probe.pc = "outlet"
    /\ probe.env = Near(<< Restaurant >>)
    /\ probe.checked /\ probe.detailed
    /\ probe.nearby.results["culinary"]
    /\ probe.detail.places[1].type = "Restaurant"

\* C20: while batch_process_outlets runs, at most max_workers outlets are being
\* processed, all of them outlets of the current batch; a batch is submitted only
\* when every outlet of the batch before it has been collected and the checkpoint
\* of that batch has been written, and only submitted outlets are dispatched
C20_OneBatchAtATime ==
    /\ [](Cardinality(Running) <= call.max_workers)
    /\ [](\A j \in DOMAIN tasks :
            tasks[j].state # "collected"
                => /\ pc = "bpo_collect"
                   /\ j \in DOMAIN batch_of(call.outlets, call.i)
                   /\ tasks[j].outlet = batch_of(call.outlets, call.i)[j])
    /\ [][ (pc = "bpo_loop" /\ pc' = "bpo_collect")
             => /\ \A j \in DOMAIN tasks : tasks[j].state = "collected"
                /\ Len(call.history) = call.i
                /\ (call.i > 0 => progress_file = json_dump(call.all_results)) ]_vars

\* the second batch of a call with one worker: one outlet is being processed,
\* the other waits for the worker
C20_Witness ==
    /\ pc = "bpo_collect"
    /\ call.i = 1
    /\ call.max_workers = 1
    /\ Cardinality(Running) = 1
    /\ \E j \in DOMAIN tasks : tasks[j].state = "pending"
\* ---------------------------------------------------------------------------
\* The life of an outlet within one call of batch_process_outlets
\* ---------------------------------------------------------------------------

\* facility_analyzer.py:110-126: every worker thread that can run does run, every
\* request returns, and the main thread goes on when it can
MainThreadOrWorkerStep ==
    \/ BatchLoop
    \/ \E j \in DOMAIN tasks : Dispatch(j)
    \/ \E j \in DOMAIN tasks : Store(j)
    \/ \E j \in DOMAIN tasks : Periodic(j)
    \/ \E j \in DOMAIN tasks : Collect(j)
    \/ Checkpoint
    \/ SaveCacheAtEnd

\* Attempt(j) is enabled exactly when task j is at the head of the retry loop:
\* weak fairness of the attempts, with that enabling condition written out
RequestsReturn ==
    \/ []<>(\A j \in DOMAIN tasks : tasks[j].state # "attempt")
    \/ []<><< \E j \in DOMAIN tasks : Attempt(j) >>_vars

SpecFair ==
    InitWorkers /\ [][NextBatch]_vars /\ WF_vars(MainThreadOrWorkerStep) /\ RequestsReturn

\* where outlet number n of the call stands: queued or not yet submitted, in the
\* hands of a worker, or returned by process_outlet_with_retry
OutletState(n) ==
    IF n <= call.i * BatchSize THEN "Terminal"
    ELSE IF pc = "bpo_collect" /\ n - call.i * BatchSize \in DOMAIN tasks
         THEN CASE tasks[n - call.i * BatchSize].state = "pending" -> "Pending"
                [] tasks[n - call.i * BatchSize].state \in { "done", "collected" } -> "Terminal"
                [] OTHER -> "Processing"
    ELSE "Pending"

\* the states that may follow a state
OutletStep(from, to) ==
    CASE from = "Pending" -> to \in { "Pending", "Processing" }
      [] from = "Processing" -> to \in { "Processing", "Terminal" }
      [] from = "Terminal" -> to = "Terminal"

\* what a finished task has returned: a record of facilities, or the record of a
\* failed outlet (None when the coordinate cannot be parsed)
Succeeded(t) ==
    t.state = "done" /\ HasResult(t.result) /\ "Error" \notin DOMAIN t.result

FailedPermanently(t) ==
    t.state = "done" /\ (t.result = NoResult \/ "Error" \in DOMAIN t.result)

\* C21: every outlet submitted to batch_process_outlets goes from Pending to
\* Processing to a terminal state (Succeeded or FailedPermanently) and never
\* leaves it; no outlet is attempted more than max_retries times; and, workers
\* being scheduled fairly and every request returning, every outlet reaches its
\* terminal state and the call returns.
C21_OutletLifeCycle ==
    /\ [][ \A n \in DOMAIN call.outlets : OutletStep(OutletState(n), OutletState(n)') ]_vars
    /\ [](\A j \in DOMAIN tasks :
            /\ tasks[j].attempts <= max_retries
            /\ tasks[j].state = "done" => (Succeeded(tasks[j]) \/ FailedPermanently(tasks[j]))
            /\ FailedPermanently(tasks[j]) /\ tasks[j].result # NoResult
                 => tasks[j].attempts = max_retries)
    /\ <>[](pc = "bpo_return" /\ \A n \in DOMAIN call.outlets : OutletState(n) = "Terminal")

\* a call has returned after an outlet failed for good at its last attempt while
\* another one succeeded
C21_Witness ==
    /\ pc = "bpo_return"
    /\ \E r \in Range(call.all_results) : "Error" \in DOMAIN r
    /\ \E r \in Range(call.all_results) : "Error" \notin DOMAIN r
    /\ Len(call.outlets) > BatchSize
    /\ \A n \in DOMAIN call.outlets : OutletState(n) = "Terminal"

\* C22: a backoff wait occurs only between a failed attempt and the attempt that
\* follows it: an outlet that has returned has waited once less than it was
\* attempted, and the attempt that exhausts the retries is not followed by a wait.
C22_WaitOnlyBeforeReattempt ==
    \A j \in DOMAIN tasks :
        tasks[j].state = "done" => tasks[j].waits = tasks[j].attempts - 1

\* the outlet whose coordinate cannot be parsed has returned: two attempts, each
\* followed by its sleep
C22_FailingInput ==
    \E j \in DOMAIN tasks :
        /\ tasks[j].state = "done"
        /\ tasks[j].outlet.koordinat = KBad
        /\ tasks[j].attempts = max_retries
        /\ tasks[j].waits = max_retries

\* the number of tasks submitted so far in the call, the running batch included
Submitted ==
    Min(call.i * BatchSize, Len(call.outlets)) + (IF pc = "bpo_collect" THEN Len(tasks) ELSE 0)

\* C23: batch_process_outlets cuts its input into ceil(N / batch_size) consecutive
\* batches of at most batch_size outlets: the batch submitted in turn i holds the
\* outlets i * batch_size + 1 .. min((i + 1) * batch_size, N) in their order and
\* is not empty, the batch counter advances by one once per submitted batch, and
\* when the call returns the counter is the least k with k * batch_size >= N and
\* every outlet has been submitted, once.
C23_ConsecutiveBatches ==
    /\ [][ /\ (pc = "bpo_loop" /\ pc' = "bpo_collect")
                => /\ call'.i = call.i
                   /\ Len(tasks') = Min(BatchSize, Len(call.outlets) - call.i * BatchSize)
                   /\ Len(tasks') >= 1
                   /\ \A k \in DOMAIN tasks' :
                        /\ tasks'[k].outlet = call.outlets[call.i * BatchSize + k]
                        /\ tasks'[k].state = "pending"
           /\ call'.i # call.i
                => /\ call'.i = call.i + 1
                   /\ pc = "bpo_collect" /\ pc' = "bpo_loop"
           /\ (pc = "bpo_collect" /\ pc' = "bpo_collect")
                => \A k \in DOMAIN tasks : /\ k \in DOMAIN tasks'
                                           /\ tasks'[k].outlet = tasks[k].outlet
                                           /\ tasks[k].state # "pending"
                                                => tasks'[k].state # "pending"
           /\ call'.outlets = call.outlets ]_vars
    /\ [](Submitted <= Len(call.outlets))
    /\ [](pc \in { "bpo_save", "bpo_return" } =>
            /\ Submitted = Len(call.outlets)
            /\ call.i * BatchSize >= Len(call.outlets)
            /\ (call.i - 1) * BatchSize < Len(call.outlets) \/ call.i = 0)

\* a call on a list that does not fill its last batch has returned
C23_Witness ==
    /\ pc = "bpo_return"
    /\ Len(call.outlets) % BatchSize # 0
    /\ call.i = Len(call.outlets) \div BatchSize + 1
    /\ call.i >= 2

\* the entries of the in-memory cache the cache file does not hold
MissingFromFile ==
    { k \in DOMAIN api_cache :
        ~ Readable(cache_file) \/ << k, api_cache[k] >> \notin cache_file.items }

\* C24: the cache file is rewritten after every tenth insertion: whenever no
\* worker is between its insertion and its look at the size of the cache, fewer
\* than ten entries of the in-memory cache are missing from the file; and when
\* batch_process_outlets has returned the file holds the in-memory cache.
C24_FileNeverTenBehind ==
    /\ (probe.pc = "insert" /\ \A w \in 1..MaxWorkers : probe.worker[w] = "idle")
            => Cardinality(MissingFromFile) < SAVE_EVERY
    /\ probe.pc = "returned"
            => Readable(cache_file) /\ pickle_load(cache_file) = api_cache

\* the ninth insertion is over, two workers made the tenth and the eleventh before
\* either looked at the size, and no file was written
C24_FailingInput ==
    /\ probe.pc = "insert"
    /\ \A w \in 1..MaxWorkers : probe.worker[w] = "idle"
    /\ Cardinality(DOMAIN api_cache) = SAVE_EVERY + 1
    /\ cache_file = NoFile

\* the part that holds: the call has returned and the file is the cache
C24_FileIsCacheAtReturn ==
    probe.pc = "returned" => Readable(cache_file) /\ pickle_load(cache_file) = api_cache

\* the combined query has an answer: some endpoint, the earlier ones having
\* failed, answers 200 with a JSON body; the answer is the decoded body
CombinedAnswer(responses) ==
    IF \E k \in EndpointIndex :
          /\ ~ EndpointFailed(responses[k]) /\ responses[k].decodable
          /\ \A i \in 1..(k - 1) : EndpointFailed(responses[i]) \/ ~ responses[i].decodable
    THEN responses[CHOOSE k \in EndpointIndex :
            /\ ~ EndpointFailed(responses[k]) /\ responses[k].decodable
            /\ \A i \in 1..(k - 1) : EndpointFailed(responses[i]) \/ ~ responses[i].decodable].value
    ELSE PyNone

\* the flags of a list of elements, each category by its own rule
FlagsOf(elements) ==
    [ c \in CategorySet |->
        \E i \in DOMAIN elements :
            category_rule(c, elements[i].tags, DictGet(elements[i].tags, "name", "")) ]

\* C25: with USE_SIMPLIFIED_QUERIES false and the place not in the cache,
\* check_nearby_facilities_simple first sends the one combined query, and sends
\* it once. It goes on to the per-category queries, in the order of the
\* categories, exactly when the combined query had no answer (None); when the
\* combined query was answered with a list of elements, the function returns the
\* flags of these elements, stores them in the cache under the key of the place
\* and sends no per-category query.
C25_CombinedQueryFirst ==
    (~ probe.simplified /\ cache_key(1000, 2000, DEFAULT_RADIUS) \notin DOMAIN probe.before)
        => LET answer == CombinedAnswer(probe.combined)
               key == cache_key(1000, 2000, DEFAULT_RADIUS)
           IN  /\ probe.pc = "called" => probe.requests = << >>
               /\ probe.pc = "combined" => probe.requests = << >>
               /\ probe.pc \in { "per_category", "returned", "raised" }
                    => /\ probe.requests # << >>
                       /\ probe.requests[1] = "all_categories"
                       /\ \A i \in 2..Len(probe.requests) :
                            probe.requests[i] = Categories[i - 1]
               /\ probe.pc = "per_category" => answer = PyNone /\ Len(probe.requests) = 1
               /\ probe.pc \in { "returned", "raised" }
                    => (Len(probe.requests) > 1 <=> answer = PyNone)
               /\ (probe.pc = "returned" /\ answer = PyNone)
                    => Len(probe.requests) = 1 + Len(Categories)
               /\ answer.type = "dict"
                    => /\ probe.pc # "raised"
                       /\ probe.pc = "returned"
                            => /\ probe.requests = << "all_categories" >>
                               /\ probe.returned = FlagsOf(answer.elements)
                               /\ key \in DOMAIN api_cache
                               /\ api_cache[key] = probe.returned
                               /\ \A k \in DOMAIN probe.before : api_cache[k] = probe.before[k]

\* the combined query was answered by the third endpoint with a supermarket and
\* the function has returned its flags from that one request
C25_Witness ==
    /\ probe.pc = "returned"
    /\ ~ probe.simplified
    /\ probe.requests = << "all_categories" >>
    /\ probe.returned["groceries"] /\ ~ probe.returned["residential"]
    /\ probe.combined[1] = OkGarbage
    /\ Cardinality(DOMAIN api_cache) = SAVE_EVERY
    /\ Readable(cache_file)

\* the combined query had no answer and the nine queries followed
C25_WitnessFallback ==
    /\ probe.pc = "returned"
    /\ ~ probe.simplified
    /\ Len(probe.requests) = 10

\* the nine flags of a record are all false (a flag the record lacks counts as
\* false)
NineFlagsFalse(record) ==
    \A i \in DOMAIN Columns : Columns[i] \in DOMAIN record => ~ record[Columns[i]]

\* the positions of a list whose records have nine false flags, in ascending order
RECURSIVE AllFalsePositions(_, _)
AllFalsePositions(result_list, n) ==
    IF n = 0 THEN << >>
    ELSE IF NineFlagsFalse(result_list[n])
         THEN Append(AllFalsePositions(result_list, n - 1), n)
    ELSE AllFalsePositions(result_list, n - 1)

\* C26: increase_detection_radius submits to batch_process_outlets, at the larger
\* radius, the outlets (name and coordinate) of exactly the records whose nine
\* flags are all false, in the order of the list; a record with a true flag is the
\* same record at the same index when the function returns, and the list keeps
\* its length; when no record is all-false the list is returned as it is without
\* any call of batch_process_outlets.
C26_OnlyAllFalseOutletsResubmitted ==
    /\ [][ /\ (pc = "analysed" /\ pc' = "bpo_loop")
                => LET positions == AllFalsePositions(results, Len(results))
                   IN  /\ positions # << >>
                       /\ call'.caller = "increase_detection_radius"
                       /\ call'.radius = LARGER_RADIUS
                       /\ Len(call'.outlets) = Len(positions)
                       /\ \A k \in DOMAIN positions :
                            /\ call'.outlets[k].nama = results[positions[k]]["Nama Outlet"]
                            /\ call'.outlets[k].koordinat = results[positions[k]]["Koordinat"]
                       /\ results' = results
           /\ (pc = "analysed" /\ pc' = "escalated")
                => /\ AllFalsePositions(results, Len(results)) = << >>
                   /\ UNCHANGED << results, call, tasks, api_cache >>
           /\ (pc = "analysed" /\ AllFalsePositions(results, Len(results)) = << >>)
                => pc' \in { "analysed", "escalated", "done" }
           /\ pc \in { "bpo_loop", "bpo_collect", "bpo_save" } => results' = results ]_vars
    /\ [](pc = "escalated" =>
            /\ Len(results) = Len(idr.before)
            /\ \A i \in DOMAIN idr.before :
                 ~ NineFlagsFalse(idr.before[i]) => results[i] = idr.before[i])

\* the function has returned a list in which the record between two re-submitted
\* outlets is untouched and a re-submitted outlet has a new record
C26_Witness ==
    /\ pc = "escalated"
    /\ Len(results) = 4
    /\ \E i \in DOMAIN results : NineFlagsFalse(idr.before[i]) /\ results[i] # idr.before[i]
    /\ \E i \in 2..3 : /\ ~ NineFlagsFalse(idr.before[i])
                       /\ NineFlagsFalse(idr.before[i - 1])
                       /\ NineFlagsFalse(idr.before[i + 1])
                       /\ results[i] = idr.before[i]

\* no record was all-false and the function has returned without processing
C26_WitnessUnchanged ==
    /\ pc = "escalated"
    /\ idr.indices = << >>
    /\ results # << >>
    /\ call = NoCall

\* ---------------------------------------------------------------------------
\* The subtype rules of get_nearby_places_detail as a table: a rule is its
\* condition on the element and the label it gives (api_handler.py:645-810)
\* ---------------------------------------------------------------------------

\* the subtype rules of category residential in their order
residential_rules(tags, name) ==
    <<
       [ holds |-> DictGet(tags, "building", None) \in { "apartments", "dormitory" },
         label |-> "Apartment/Dormitory" ],
       [ holds |-> DictGet(tags, "building", None) = "house",
         label |-> "House" ],
       [ holds |-> InName("cluster", name) \/ InName("villa", name),
         label |-> "Cluster/Villa" ],
       [ holds |-> InName("perumahan", name),
         label |-> "Housing Complex" ] >>

\* the subtype rules of category education in their order
education_rules(tags, name) ==
    <<
       [ holds |-> InTag("university", tags, "amenity") \/ InName("universitas", name),
         label |-> "University" ],
       [ holds |-> InTag("school", tags, "amenity") \/ AnyInName({ "sd", "smp", "sma", "smk", "sekolah" }, name),
         label |-> "School" ],
       [ holds |-> InTag("kindergarten", tags, "amenity") \/ AnyInName({ "tk", "paud" }, name),
         label |-> "Kindergarten" ],
       [ holds |-> InName("pesantren", name),
         label |-> "Islamic Boarding School" ],
       [ holds |-> AnyInName({ "kursus", "course", "training" }, name),
         label |-> "Course/Training Center" ] >>

\* the subtype rules of category public_area in their order
public_area_rules(tags, name) ==
    <<
       [ holds |-> InTag("hospital", tags, "amenity") \/ AnyInName({ "rumah sakit", "rs" }, name),
         label |-> "Hospital" ],
       [ holds |-> InTag("clinic", tags, "amenity") \/ AnyInName({ "klinik", "puskesmas" }, name),
         label |-> "Clinic" ],
       [ holds |-> InTag("park", tags, "leisure") \/ InName("taman", name),
         label |-> "Park" ],
       [ holds |-> InTag("place_of_worship", tags, "amenity") \/ AnyInName({ "masjid", "gereja", "pura", "vihara", "klenteng" }, name),
         label |-> "Place of Worship" ],
       [ holds |-> InTag("museum", tags, "tourism") \/ InName("museum", name),
         label |-> "Museum" ],
       [ holds |-> InTag("bus_station", tags, "amenity") \/ InName("terminal", name),
         label |-> "Bus Station/Terminal" ],
       [ holds |-> InTag("station", tags, "public_transport") \/ InName("stasiun", name),
         label |-> "Train/Metro Station" ],
       [ holds |-> InTag("terminal", tags, "aeroway") \/ AnyInName({ "bandara", "airport" }, name),
         label |-> "Airport" ] >>

\* the subtype rules of category culinary in their order
culinary_rules(tags, name) ==
    <<
       [ holds |-> InTag("restaurant", tags, "amenity") \/ InName("restoran", name),
         label |-> "Restaurant" ],
       [ holds |-> InTag("cafe", tags, "amenity") \/ InName("cafe", name) \/ InName("kafe", name),
         label |-> "Cafe" ],
       [ holds |-> InTag("food_court", tags, "amenity") \/ InName("food court", name),
         label |-> "Food Court" ],
       [ holds |-> InTag("fast_food", tags, "amenity") \/ InName("fast food", name),
         label |-> "Fast Food" ],
       [ holds |-> InName("warmindo", name),
         label |-> "Warmindo" ],
       [ holds |-> InName("warung", name) \/ InName("warteg", name),
         label |-> "Warung" ],
       [ holds |-> InName("kedai", name),
         label |-> "Kedai" ],
       [ holds |-> InTag("bakery", tags, "shop") \/ InName("bakery", name) \/ InName("roti", name),
         label |-> "Bakery" ],
       [ holds |-> InTag("coffee", tags, "shop") \/ InName("kopi", name),
         label |-> "Coffee Shop" ],
       [ holds |-> \E x \in { "ayam", "chicken", "bakso", "mie", "nasi", "soto", "pecel" } : InName(x, name),
         label |-> "Food Stall" ] >>

\* the subtype rules of category business_center in their order
business_center_rules(tags, name) ==
    <<
       [ holds |-> InTag("office", tags, "building") \/ InName("perkantoran", name),
         label |-> "Office Building" ],
       [ holds |-> InName("ruko", name),
         label |-> "Shophouse" ],
       [ holds |-> InName("coworking", name),
         label |-> "Coworking Space" ],
       [ holds |-> InTag("industrial", tags, "landuse") \/ InName("kawasan industri", name),
         label |-> "Industrial Area" ],
       [ holds |-> InTag("supermarket", tags, "shop") \/ InName("supermarket", name),
         label |-> "Supermarket" ],
       [ holds |-> InTag("mall", tags, "shop") \/ AnyInName({ "mall", "plaza" }, name),
         label |-> "Shopping Mall" ],
       [ holds |-> InTag("marketplace", tags, "amenity") \/ AnyInName({ "pasar", "market" }, name),
         label |-> "Market" ],
       [ holds |-> InTag("convenience", tags, "shop") \/ AnyInName({ "alfamart", "indomaret" }, name),
         label |-> "Convenience Store" ],
       [ holds |-> "shop" \in DOMAIN tags,
         label |-> "Shop" ] >>

\* the subtype rules of category groceries in their order
groceries_rules(tags, name) ==
    <<
       [ holds |-> InTag("supermarket", tags, "shop") \/ InName("supermarket", name),
         label |-> "Supermarket" ],
       [ holds |-> InTag("grocery", tags, "shop") \/ AnyInName({ "grocery", "sembako" }, name),
         label |-> "Grocery Store" ],
       [ holds |-> InTag("greengrocer", tags, "shop") \/ AnyInName({ "sayur", "buah" }, name),
         label |-> "Greengrocer/Fruit Shop" ],
       [ holds |-> InTag("butcher", tags, "shop") \/ AnyInName({ "daging", "meat" }, name),
         label |-> "Butcher Shop" ],
       [ holds |-> InTag("seafood", tags, "shop") \/ InName("seafood", name),
         label |-> "Seafood Shop" ],
       [ holds |-> InTag("marketplace", tags, "amenity") \/ AnyInName({ "pasar", "market" }, name),
         label |-> "Traditional Market" ],
       [ holds |-> InTag("bakery", tags, "shop") \/ AnyInName({ "bakery", "roti" }, name),
         label |-> "Bakery" ],
       [ holds |-> InName("kelontong", name),
         label |-> "Small Grocery" ] >>

\* the subtype rules of category convenient_stores in their order
convenient_stores_rules(tags, name) ==
    <<
       [ holds |-> InName("indomaret", name),
         label |-> "Indomaret" ],
       [ holds |-> AnyInName({ "alfamart", "alfamidi", "alfa" }, name),
         label |-> "Alfamart/Alfamidi" ],
       [ holds |-> InName("circle k", name),
         label |-> "Circle K" ],
       [ holds |-> InName("family mart", name),
         label |-> "Family Mart" ],
       [ holds |-> InName("lawson", name),
         label |-> "Lawson" ],
       [ holds |-> AnyInName({ "7-eleven", "7 eleven", "seven eleven" }, name),
         label |-> "7-Eleven" ],
       [ holds |-> AnyInName({ "minimart", "mini mart", "mini market" }, name),
         label |-> "Mini Market" ],
       [ holds |-> InTag("convenience", tags, "shop") \/ InName("convenience", name),
         label |-> "Convenience Store" ],
       [ holds |-> InTag("kiosk", tags, "shop") \/ AnyInName({ "kios", "warung" }, name),
         label |-> "Kiosk/Small Shop" ] >>

\* the subtype rules of category industrial in their order
industrial_rules(tags, name) ==
    <<
       [ holds |-> InTag("factory", tags, "building") \/ AnyInName({ "pabrik", "factory" }, name),
         label |-> "Factory" ],
       [ holds |-> InTag("warehouse", tags, "building") \/ AnyInName({ "gudang", "warehouse" }, name),
         label |-> "Warehouse" ],
       [ holds |-> InTag("industrial", tags, "landuse") \/ AnyInName({ "kawasan industri", "industrial" }, name),
         label |-> "Industrial Area" ],
       [ holds |-> InTag("workshop", tags, "industrial") \/ AnyInName({ "bengkel", "workshop" }, name),
         label |-> "Workshop" ],
       [ holds |-> InTag("manufacturing", tags, "building") \/ AnyInName({ "manufacturing", "manufaktur" }, name),
         label |-> "Manufacturing Facility" ] >>

\* the subtype rules of category hospital_clinic in their order
hospital_clinic_rules(tags, name) ==
    <<
       [ holds |-> InTag("hospital", tags, "amenity") \/ AnyInName({ "rumah sakit", "hospital", "rs" }, name),
         label |-> "Hospital" ],
       [ holds |-> InTag("clinic", tags, "amenity") \/ AnyInName({ "klinik", "clinic" }, name),
         label |-> "Clinic" ],
       [ holds |-> InTag("doctors", tags, "amenity") \/ AnyInName({ "dokter", "doctor" }, name),
         label |-> "Doctor's Office" ],
       [ holds |-> InTag("pharmacy", tags, "amenity") \/ AnyInName({ "apotek", "apotik", "pharmacy" }, name),
         label |-> "Pharmacy" ],
       [ holds |-> InTag("dentist", tags, "amenity") \/ AnyInName({ "gigi", "dental" }, name),
         label |-> "Dental Clinic" ],
       [ holds |-> AnyInName({ "puskesmas", "health center", "health centre" }, name),
         label |-> "Community Health Center" ],
       [ holds |-> AnyInName({ "laboratory", "lab", "laboratorium" }, name),
         label |-> "Medical Laboratory" ] >>

\* the rules of a category
subtype_rules(category, tags, name) ==
    CASE category = "residential" -> residential_rules(tags, name)
      [] category = "education" -> education_rules(tags, name)
      [] category = "public_area" -> public_area_rules(tags, name)
      [] category = "culinary" -> culinary_rules(tags, name)
      [] category = "business_center" -> business_center_rules(tags, name)
      [] category = "groceries" -> groceries_rules(tags, name)
      [] category = "convenient_stores" -> convenient_stores_rules(tags, name)
      [] category = "industrial" -> industrial_rules(tags, name)
      [] category = "hospital_clinic" -> hospital_clinic_rules(tags, name)

\* the label of an element of the category that no subtype rule matches
fallback_label(category) ==
    CASE category = "residential" -> "Residential Area"
      [] category = "education" -> "Educational Institution"
      [] category = "public_area" -> "Public Facility"
      [] category = "culinary" -> "Food & Beverage"
      [] category = "business_center" -> "Commercial Area"
      [] category = "groceries" -> "Grocery Store"
      [] category = "convenient_stores" -> "Convenience Store"
      [] category = "industrial" -> "Industrial Facility"
      [] category = "hospital_clinic" -> "Healthcare Facility"

\* the rules of the category that hold for an element
Matching(category, tags, name) ==
    { i \in DOMAIN subtype_rules(category, tags, name) :
        subtype_rules(category, tags, name)[i].holds }

\* the label of the first rule that holds
FirstMatchLabel(category, tags, name) ==
    LET first == CHOOSE i \in Matching(category, tags, name) :
                     \A j \in Matching(category, tags, name) : i <= j
    IN  subtype_rules(category, tags, name)[first].label

\* labels of the form "Unknown X"
UnknownLabels ==
    { "Unknown" } \cup { "Unknown " \o x : x \in CategorySet \cup ColumnSet }
        \cup { "Unknown " \o fallback_label(c) : c \in CategorySet }

\* the elements of the answer that belong to the category
InCategory(elements, category) ==
    SelectSeq(elements, LAMBDA e : category_rule(category, e.tags, DictGet(e.tags, "name", "")))

\* C27 as stated: an element of the requested category that matches none of the
\* subtype rules of the category is labelled "Unknown X"; any other element has
\* the label of the first rule, in the order of the chain, whose condition holds.
C27_FallbackIsUnknownX ==
    probe.pc = "returned"
        => \A i \in DOMAIN probe.places :
             LET place == probe.places[i]
                 name == DictGet(place.tags, "name", "")
             IN  IF Matching(probe.category, place.tags, name) = {}
                 THEN place.type \in UnknownLabels
                 ELSE place.type = FirstMatchLabel(probe.category, place.tags, name)

\* C27, amended: get_nearby_places_detail returns one place per element of the
\* requested category, in the order of the answer; an element that matches none
\* of the subtype rules of the category has the fallback label of the category
\* (Residential Area, Educational Institution, Public Facility, Food & Beverage,
\* Commercial Area, Grocery Store, Convenience Store, Industrial Facility,
\* Healthcare Facility), which never is of the form "Unknown X"; any other element
\* has the label of the first rule, in the order of the chain, whose condition
\* holds.
C27_FirstRuleOrCategoryFallback ==
    /\ \A c \in CategorySet : fallback_label(c) \notin UnknownLabels
    /\ probe.pc = "returned"
        => /\ Len(probe.places) = Len(InCategory(probe.elements, probe.category))
           /\ \A i \in DOMAIN probe.places :
                LET place == probe.places[i]
                    name == DictGet(place.tags, "name", "")
                IN  /\ place.tags = InCategory(probe.elements, probe.category)[i].tags
                    /\ place.type =
                         IF Matching(probe.category, place.tags, name) = {}
                         THEN fallback_label(probe.category)
                         ELSE FirstMatchLabel(probe.category, place.tags, name)

\* a business-centre query has returned a supermarket, which two rules match and
\* the earlier one labels, and a commercial building, which none matches
C27_Witness ==
    /\ probe.pc = "returned"
    /\ probe.category = "business_center"
    /\ Len(probe.places) = 2
    /\ Cardinality(Matching("business_center", probe.places[1].tags,
                            DictGet(probe.places[1].tags, "name", ""))) >= 2
    /\ probe.places[1].type = "Supermarket"
    /\ Matching("business_center", probe.places[2].tags, "") = {}
    /\ probe.places[2].type = "Commercial Area"

\* the areas of a list of outlets and the number of stores counted in each
AreaStores(outlet_results) ==
    LET area(i) == IF "Kecamatan" \in DOMAIN outlet_results[i]
                   THEN outlet_results[i]["Kecamatan"] ELSE "Unknown"
        RECURSIVE stores(_, _)
        stores(a, n) ==
            IF n = 0 THEN 0
            ELSE stores(a, n - 1)
                   + (IF area(n) = a THEN outlet_results[n]["Indomaret_Count"] ELSE 0)
    IN  [ a \in { area(i) : i \in DOMAIN outlet_results } |-> stores(a, Len(outlet_results)) ]

\* the outlets of a list that have a store near
WithStore(outlet_results) ==
    { i \in DOMAIN outlet_results : outlet_results[i]["Indomaret_Count"] > 0 }

\* the areas an insight counts
Counted(insight) ==
    IF "number" \in DOMAIN insight THEN insight.number ELSE 0

\* the names an insight gives are the first ones of the areas of the set, in the
\* order in which the areas first occur in the list
NamesTheFirst(insight, areas, most) ==
    /\ Counted(insight) = Cardinality(areas)
    /\ areas # {} =>
         /\ Len(insight.named) = Min(most, Cardinality(areas))
         /\ \A k \in DOMAIN insight.named : insight.named[k] \in areas
         /\ \A k, l \in DOMAIN insight.named : k # l => insight.named[k] # insight.named[l]
         /\ insight.ellipsis <=> Cardinality(areas) > most

\* C28 as stated: the competition level is determined by the per-area store
\* counts alone (two lists of outlets with the same store count in every area get
\* the same level), and an area is counted as under-served exactly when its
\* count is 0 and as over-saturated exactly when its count is above 3.
C28_InsightsFromAreaCountsAlone ==
    probe.pc = "reported" /\ probe.outlet_results # << >>
        => /\ \A other \in ReportInputs \ { << >> } :
                AreaStores(other) = AreaStores(probe.outlet_results)
                    => generate_indomaret_report(other).insights.competition_analysis.competition_level
                         = probe.report.insights.competition_analysis.competition_level
           /\ Counted(probe.report.insights.market_opportunity)
                = Cardinality({ a \in DOMAIN AreaStores(probe.outlet_results) :
                                  AreaStores(probe.outlet_results)[a] = 0 })
           /\ Counted(probe.report.insights.strategic_recommendation)
                = Cardinality({ a \in DOMAIN AreaStores(probe.outlet_results) :
                                  AreaStores(probe.outlet_results)[a] > 3 })

\* C28, amended: the under-served areas of the report are exactly the areas whose
\* store count is 0 and the over-saturated ones exactly those whose count is
\* above 3 (the insight gives their number and names the first three,
\* respectively two, of them); the competition level is taken from the share of
\* the outlets that have a store near, not from the area counts: TINGGI above
\* 70 %, SEDANG above 40 %, RENDAH otherwise; the report of an empty list is
\* empty.
C28_AreasByCountLevelByShare ==
    probe.pc = "reported"
        => IF probe.outlet_results = << >> THEN probe.report = << >>
           ELSE LET counts == AreaStores(probe.outlet_results)
                    with == Cardinality(WithStore(probe.outlet_results))
                    total == Len(probe.outlet_results)
                    level == probe.report.insights.competition_analysis.competition_level
                IN  /\ Range(probe.report.kecamatan_without_indomaret)
                         = { a \in DOMAIN counts : counts[a] = 0 }
                    /\ NamesTheFirst(probe.report.insights.market_opportunity,
                                     { a \in DOMAIN counts : counts[a] = 0 }, 3)
                    /\ NamesTheFirst(probe.report.insights.strategic_recommendation,
                                     { a \in DOMAIN counts : counts[a] > 3 }, 2)
                    /\ level = "TINGGI" <=> with * 100 > 70 * total
                    /\ level = "SEDANG" <=> (with * 100 > 40 * total /\ with * 100 <= 70 * total)
                    /\ level = "RENDAH" <=> with * 100 <= 40 * total
                    /\ \A a \in DOMAIN counts :
                         probe.report.kecamatan_distribution[a].indomaret_stores = counts[a]

\* a report on three areas: one without a store, one with two stores, one with
\* two outlets that count four stores together; one outlet of four has no store
C28_Witness ==
    /\ probe.pc = "reported"
    /\ Len(probe.outlet_results) = 4
    /\ { AreaStores(probe.outlet_results)[a] : a \in DOMAIN AreaStores(probe.outlet_results) }
         = { 0, 2, 4 }
    /\ \E a \in DOMAIN AreaStores(probe.outlet_results) :
         /\ probe.report.kecamatan_distribution[a].outlets = 2
         /\ probe.report.kecamatan_distribution[a].indomaret_stores = 4
         /\ probe.report.kecamatan_distribution[a].outlets_with_indomaret = 2
    /\ probe.report.insights.competition_analysis.competition_level = "TINGGI"
    /\ Counted(probe.report.insights.market_opportunity) = 1
    /\ Counted(probe.report.insights.strategic_recommendation) = 1

\* the tasks of the batch that looked the same key up: distinct outlets whose
\* coordinates parse to the same latitude and longitude
SameKey(j, k) ==
    /\ j # k
    /\ tasks[j].attempts + tasks[j].queries > 0
    /\ tasks[k].attempts + tasks[k].queries > 0
    /\ cache_key(tasks[j].lat, tasks[j].lon, call.radius)
         = cache_key(tasks[k].lat, tasks[k].lon, call.radius)

\* C29: of two outlets of one batch that have the same cache key, only one sends
\* queries to the service and the other is served from the cache: no two tasks
\* of a batch with the same key have both sent the queries of a classification
\* (none of them after a failed attempt).
C29_OneClassificationPerKey ==
    \A j, k \in DOMAIN tasks :
        SameKey(j, k) /\ tasks[j].retries = 0 /\ tasks[k].retries = 0
            => ~ (tasks[j].queries > 0 /\ tasks[k].queries > 0)

\* two workers hold a classification of the same key, each from its own queries,
\* and neither has stored it yet
C29_FailingInput ==
    \E j, k \in DOMAIN tasks :
        /\ SameKey(j, k)
        /\ tasks[j].state = "store" /\ tasks[k].state = "store"
        /\ tasks[j].queries = 1 /\ tasks[k].queries = 1

\* the records of the resumed checkpoint that carry the 'Error' marker
FailureRecords ==
    { existing_results[i] : i \in { i \in DOMAIN existing_results :
                                      "Error" \in DOMAIN existing_results[i] } }

\* the tasks of the current batch that process the outlet of a record
TasksOf(record) ==
    { j \in DOMAIN tasks : tasks[j].outlet.nama = record["Nama Outlet"] }

\* C30 as stated: an outlet whose checkpoint record carries the 'Error' marker
\* is never attempted again by the run that resumes the checkpoint, and its
\* placeholder record is in the results the analysis ends with.
C30_FailureRecordNeverReattempted ==
    \A record \in FailureRecords :
        /\ TasksOf(record) = {}
        /\ pc \in { "analysed", "escalated", "done" } /\ results # << >>
             => record \in Range(results)

\* C30, amended: get_remaining_outlets leaves the outlet of a checkpointed
\* failure record out, the call of batch_process_outlets that resumes the run
\* has no task for it, and its placeholder record is in the results merged at
\* the end of that call and in the final results of a run without the pass at
\* the larger radius; only that pass, which takes every record without a
\* facility up again, attempts the outlet again.
C30_FailureRecordSkippedByResume ==
    \A record \in FailureRecords :
        /\ \A i \in DOMAIN get_remaining_outlets(outlets, existing_results) :
             get_remaining_outlets(outlets, existing_results)[i].nama # record["Nama Outlet"]
        /\ call.caller = "resume"
             => /\ call.outlets = get_remaining_outlets(outlets, existing_results)
                /\ TasksOf(record) = {}
        /\ TasksOf(record) # {} => call.caller = "increase_detection_radius"
        /\ pc = "analysed" /\ results # << >> => record \in Range(results)
        /\ pc = "done" /\ idr = NoIdr /\ results # << >> => record \in Range(results)

\* a resumed run has processed the one outlet that was left, and the failure
\* record of the checkpoint is in the merged results
C30_Witness ==
    /\ pc = "analysed"
    /\ call.caller = "resume"
    /\ Len(call.all_results) = 1
    /\ Len(results) = 3
    /\ \E record \in FailureRecords :
         /\ record \in Range(results)
         /\ \E i \in DOMAIN outlets : outlets[i].nama = record["Nama Outlet"]
         /\ WithoutFacilities(record)

====
